---- MODULE Spec2Model ----
(***************************************************************************)
(* Model of the content loader of the site (src/js/main.js) and of the     *)
(* stand-alone timeline module (src/timeline.js).                          *)
(*                                                                         *)
(* A loader is an async function: its synchronous prefix runs when it is   *)
(* called, it suspends at its fetch, and its continuation runs, atomically  *)
(* (JavaScript is run-to-completion), when the fetch settles.  A fetch and  *)
(* the read of its body (response.text() / response.json()) are one I/O    *)
(* operation whose outcome the environment chooses.                        *)
(***************************************************************************)
EXTENDS Integers, Sequences, FiniteSets, TLC

VARIABLES
    configFile,  \* the text the server holds for content/site/config.yaml
    initPc,      \* number of loader calls the page initializer has made
    state,       \* per loader: Unloaded, Fetching, Rendered, Skipped, Failed
    requests,    \* per loader: the paths it has fetched, in order
    failedFetch, \* loaders one of whose fetches (or its parse) failed
    ret,         \* per loader: what loadConfig returned to it
    siteConfig,  \* main.js:17, the module-level configuration cache
    cfgWrites,   \* number of assignments made to siteConfig
    dom,         \* element id -> content, for the elements the document has
    uncaught,    \* loaders whose promise rejected (an error left the loader)
    blogId,      \* the id parameter of the page's URL ("" when it has none)
    timelineData,\* the timeline entries held by the timeline file
    runs,        \* per loader: completed runs on the same data
    input,       \* the argument of the function being applied
    output,      \* what the function has produced so far
    pc,          \* the step the function is at
    listeners,   \* the event listeners registered on the window
    headingTops  \* per heading: getBoundingClientRect().top at this scroll

vars == <<configFile, initPc, state, requests, failedFetch, ret,
          siteConfig, cfgWrites, dom, uncaught, blogId, timelineData, runs,
          input, output, pc, listeners, headingTops>>

\* the variables of the page's loaders
loaderVars == <<configFile, initPc, state, requests, failedFetch, ret,
                siteConfig, cfgWrites, uncaught, blogId, timelineData, runs>>
\* the variables of the functions studied on their own
functionVars == <<input, output, pc>>
\* the variables of the table of contents
scrollVars == <<listeners, headingTops>>

-----------------------------------------------------------------------------
(* Bounds of the model *)

\* longest text, in pieces, given to the inline formatter
MaxPieces == 4
\* longest blog post body, in elements, given a table of contents
MaxBlocks == 4
\* longest timeline file drawn as an input of the rendering specification
MaxEntries == 3
\* number of callers of loadConfig in the loadConfig specification
MaxCallers == 3
\* number of times one loader is run on the same data
MaxRuns == 2
MaxClicks == 3

-----------------------------------------------------------------------------
(* Values *)

\* JavaScript null / undefined, and every parsed value, is a tagged record
Null == [type |-> "null"]
\* a loader that has not yet been handed loadConfig's result
NotReturned == [type |-> "pending"]
\* `if (v)` / `!v` on a parsed value
Truthy(v) == v.type # "null"

\* no function is being studied on its own; nothing is scrolled
NoFunction == input = Null /\ output = Null /\ pc = 0
NoScroll == listeners = <<>> /\ headingTops = <<>>

Has(v, f) == f \in DOMAIN v
List(items) == [type |-> "list", items |-> items]

Range(s) == {s[i] : i \in 1..Len(s)}

\* A date is a number of months; "YYYY-MM" in the content files.
Ym(y, m) == y * 12 + (m - 1)
\* Date.prototype.getFullYear
GetFullYear(d) == d \div 12

\* start dates the rendering specification draws timeline entries from
Dates == {Ym(2020, 1), Ym(2020, 7), Ym(2021, 3), Ym(2022, 1)}

-----------------------------------------------------------------------------
(* The content files *)

ConfigPath == "content/site/config.yaml"
BioPath == "content/site/bio.md"
DesignPath == "content/site/design.json"

\* texts the server may hold for config.yaml
ConfigTexts == {"config-full", "config-minimal", "config-malformed"}
\* the texts a page load is checked on
PageConfigTexts == {"config-full", "config-malformed"}

FullConfig ==
    [type |-> "map",
     name |-> "Site Name",
     profile |-> "profile from config",
     contacts |-> <<[name |-> "github", icon |-> "gh.png", is_image |-> TRUE],
                    [name |-> "email", icon |-> "@", is_image |-> FALSE]>>,
     navigation |-> <<"Home", "Blog">>,
     year |-> "2025"]

\* a configuration with no profile, contacts or navigation entry
MinimalConfig == [type |-> "map", name |-> "Site Name"]

\* jsyaml.load: the parsed value, or an exception on a malformed text
JsYamlLoad(text) ==
    CASE text = "config-full" -> [threw |-> FALSE, value |-> FullConfig]
      [] text = "config-minimal" -> [threw |-> FALSE, value |-> MinimalConfig]
      [] OTHER -> [threw |-> TRUE, value |-> Null]

\* outcomes of fetching config.yaml: the fetch rejects, or the file's text arrives
ConfigResponses == {"NetFail", "Body"}

\* a loadConfig that never finds its cache filled
NeverCached(cache) == FALSE

\* loadConfig, line 24: a cached configuration is returned without a fetch
LoadConfigCached(cache) == Truthy(cache)

\* a loadConfig that assigns siteConfig in its catch block too
LoadConfigSettleAssignsOnFailure(resp, text) ==
    IF resp = "NetFail"
    THEN [assigns |-> TRUE, value |-> Null]
    ELSE LET p == JsYamlLoad(text)
         IN  [assigns |-> TRUE, value |-> p.value]

\* a loadConfig that caches the error of a failed load
LoadConfigSettleCachingError(resp, text) ==
    IF resp = "NetFail" \/ JsYamlLoad(text).threw
    THEN [assigns |-> TRUE, value |-> [type |-> "error"]]
    ELSE [assigns |-> TRUE, value |-> JsYamlLoad(text).value]

\* loadConfig, lines 28-36, once the fetch has settled: what is returned and
\* whether siteConfig is assigned (line 31)
LoadConfigSettle(resp, text) ==
    IF resp = "NetFail"
    THEN [assigns |-> FALSE, value |-> Null]
    ELSE LET p == JsYamlLoad(text)
         IN  IF p.threw
             THEN [assigns |-> FALSE, value |-> Null]
             ELSE [assigns |-> TRUE, value |-> p.value]

-----------------------------------------------------------------------------
(* The timeline *)

\* a comparator that sorts the oldest entry first: dateA - dateB
CompareAscending(a, b) == a.start_date - b.start_date

\* loadTimeline's comparator: dateB - dateA
Compare(a, b) == b.start_date - a.start_date

RECURSIVE InsertSorted(_, _)
\* x goes after every element that does not sort after it
InsertSorted(s, x) ==
    IF s = <<>> THEN <<x>>
    ELSE IF Compare(Head(s), x) <= 0
         THEN <<Head(s)>> \o InsertSorted(Tail(s), x)
         ELSE <<x>> \o s

RECURSIVE SortFrom(_, _)
SortFrom(done, rest) ==
    IF rest = <<>> THEN done
    ELSE SortFrom(InsertSorted(done, Head(rest)), Tail(rest))

\* timeline.sort(comparator): Array.prototype.sort is a stable sort
SortTimeline(items) == SortFrom(<<>>, items)

\* one rendered timeline entry
TimelineItemHTML(item) ==
    [tag |-> "timeline-item",
     year |-> GetFullYear(item.start_date),
     organization |-> item.organization]
\* timeline.map(...).join(''): the entries' fragments, in the list's order
TimelineItems(items) == [i \in 1..Len(items) |-> TimelineItemHTML(items[i])]

\* the entries of a timeline file: entry i carries organization i
TimelineFiles ==
    UNION {[1..n -> Dates] : n \in 0..MaxEntries}
Entries(f) == [i \in 1..Len(f) |-> [start_date |-> f[i], organization |-> i]]

-----------------------------------------------------------------------------
(* What a loader's continuation does, as a value *)

\* outcome: Rendered (the section's content written), Skipped (plain return),
\* Threw, or Fetch (suspends at a further fetch of `path`); writes: the
\* elements assigned on the way, id -> content
NoWrites == <<>>
Wrote(id, content) ==
    [outcome |-> "Rendered", writes |-> (id :> content), path |-> ""]
Returned == [outcome |-> "Skipped", writes |-> NoWrites, path |-> ""]
ReturnedAfter(writes) == [outcome |-> "Skipped", writes |-> writes, path |-> ""]
Threw == [outcome |-> "Threw", writes |-> NoWrites, path |-> ""]
ThrewAfter(writes) == [outcome |-> "Threw", writes |-> writes, path |-> ""]
Fetches(path, writes) == [outcome |-> "Fetch", writes |-> writes, path |-> path]

-----------------------------------------------------------------------------
(* The YAML content sections: publications, blogs, timeline, media *)

YamlLoaders == {"publications", "blogs", "timeline", "media"}

BlogIndexPath == "content/blogs/blogs.yaml"

YamlPath(l) ==
    CASE l = "publications" -> "content/publications/publications.yaml"
      [] l = "blogs" -> BlogIndexPath
      [] l = "timeline" -> "content/timeline/timeline.yaml"
      [] l = "media" -> "content/media/media.yaml"

\* outcomes of fetching a YAML content file: the fetch rejects; the text is
\* malformed; the text parses to something that is no list; the items arrive
YamlResponses == {"NetFail", "Malformed", "Scalar", "Items"}

\* loadYaml: the parsed value, or null once the failure is caught and logged
LoadYaml(resp, items) ==
    CASE resp = "Items" -> List(items)
      [] resp = "Scalar" -> [type |-> "scalar"]
      [] OTHER -> Null

PublicationCard(pub) == [tag |-> "publication", title |-> pub.title]
BlogCard(blog) == [tag |-> "blog-post", id |-> blog.id]
MediaCard(item) == [tag |-> "media-item", video_id |-> item.video_id]
\* list.map(...).join(''): one fragment per item, in the list's order
PublicationCards(items) == [i \in 1..Len(items) |-> PublicationCard(items[i])]
BlogCards(items) == [i \in 1..Len(items) |-> BlogCard(items[i])]
MediaCards(items) == [i \in 1..Len(items) |-> MediaCard(items[i])]

\* the blog index: a post held as JSON, a legacy Markdown post, and an entry
\* that names no content file
BlogIndex ==
    <<[id |-> "post-1", content_file |-> "content/blogs/post-1.json"],
      [id |-> "post-2", markdown_file |-> "content/blogs/post-2.md"],
      [id |-> "post-3"]>>

\* the items held by the site's content files during a page load
SiteItems(l) ==
    CASE l = "publications" -> <<[title |-> "Paper A"], [title |-> "Paper B"]>>
      [] l = "blogs" -> BlogIndex
      [] l = "timeline" -> Entries(<<Ym(2020, 1), Ym(2022, 1), Ym(2021, 3)>>)
      [] l = "media" -> <<[video_id |-> "v1"]>>

\* main.js loadPublications, after `await loadYaml(...)`
LoadPublications(data, found, old) ==
    IF ~found \/ ~Truthy(data) THEN Returned
    ELSE IF data.type # "list" THEN Threw
    ELSE Wrote("publications-list", PublicationCards(data.items))

\* main.js loadBlogs, after `await loadYaml(...)`
LoadBlogs(data, found, old) ==
    IF ~found \/ ~Truthy(data) THEN Returned
    ELSE IF data.type # "list" THEN Threw
    ELSE Wrote("blog-list", BlogCards(data.items))

\* a loadTimeline that does not test its container before assigning to it
LoadTimelineUnguarded(data, found, old) ==
    IF ~Truthy(data) THEN Returned
    ELSE IF data.type # "list" \/ ~found THEN Threw
    ELSE Wrote("timeline-list",
               TimelineItems(SortTimeline(data.items)))

\* main.js loadTimeline, after `await loadYaml(...)`
LoadTimeline(data, found, old) ==
    IF ~found \/ ~Truthy(data) THEN Returned
    ELSE IF data.type # "list" THEN Threw
    ELSE Wrote("timeline-list",
               TimelineItems(SortTimeline(data.items)))

\* main.js loadMedia, after `await loadYaml(...)`
LoadMedia(data, found, old) ==
    IF ~found \/ ~Truthy(data) THEN Returned
    ELSE IF data.type # "list" THEN Threw
    ELSE Wrote("media-list", MediaCards(data.items))

-----------------------------------------------------------------------------
(* The configuration-driven sections *)

ConfigLoaders == {"layout", "metadata", "profile", "social",
                  "blogLayout", "blogMetadata"}

ThemeButton == [tag |-> "button", id |-> "theme-toggle"]
IsThemeButton(e) == e = ThemeButton
NavLink(label) == [tag |-> "a", label |-> label]
SocialLink(contact) ==
    [tag |-> "a", title |-> contact.name,
     inner |-> IF contact.is_image THEN "img" ELSE "span"]
TextNode(text) == [tag |-> "text", text |-> text]
\* one link per entry, in the configuration's order
NavLinks(labels) == [i \in 1..Len(labels) |-> NavLink(labels[i])]
SocialLinks(contacts) == [i \in 1..Len(contacts) |-> SocialLink(contacts[i])]

\* loadLayoutConfiguration, after `await loadConfig()`: the navigation menu
LoadLayoutConfiguration(config, found, old) ==
    IF ~Truthy(config) THEN Returned
    ELSE IF found /\ Has(config, "navigation")
         THEN Wrote("nav-links", NavLinks(config.navigation)
                                 \o SelectSeq(old, IsThemeButton))
         ELSE Returned

\* loadSiteMetadata, after `await loadConfig()`: the site name
LoadSiteMetadata(config, found, old) ==
    IF ~Truthy(config) THEN Returned
    ELSE IF found /\ Has(config, "name")
         THEN Wrote("site-name", <<TextNode(config.name)>>)
         ELSE Returned

\* loadSocialLinks, after `await loadConfig()`
LoadSocialLinks(config, found, old) ==
    IF ~Truthy(config) THEN Returned
    ELSE IF ~found \/ ~Has(config, "contacts") THEN Returned
    ELSE Wrote("profile-socials", old \o SocialLinks(config.contacts))

\* convertSimpleMarkdownToHtml: the text wrapped in a paragraph
ConvertSimpleMarkdownToHtml(markdown) == [tag |-> "p", text |-> markdown]

\* loadProfileContent, after `await loadConfig()`
LoadProfileContent(config, found, old) ==
    IF Truthy(config) /\ Has(config, "profile")
    THEN IF found
         THEN Wrote("profile-content",
                    <<ConvertSimpleMarkdownToHtml(config.profile)>>)
         ELSE Returned
    ELSE Fetches(BioPath, NoWrites)

\* outcomes of fetching bio.md
BioResponses == {"NetFail", "Body"}

\* a loadProfileContent that fetches bio.md again when that fetch failed
LoadProfileFromBioRetrying(resp, found, old) ==
    IF resp = "NetFail" THEN Fetches(BioPath, NoWrites)
    ELSE IF found
         THEN Wrote("profile-content",
                    <<ConvertSimpleMarkdownToHtml("profile from bio.md")>>)
         ELSE Returned

\* loadProfileContent, after the fallback `await fetch('content/site/bio.md')`
LoadProfileFromBio(resp, found, old) ==
    IF resp = "NetFail" THEN Threw
    ELSE IF found
         THEN Wrote("profile-content",
                    <<ConvertSimpleMarkdownToHtml("profile from bio.md")>>)
         ELSE Returned

\* outcomes of fetching design.json: the fetch rejects; a response that is
\* not ok; a body that is no JSON; the design arrives
DesignResponses == {"NetFail", "HttpError", "Malformed", "Body"}

\* loadDesignConfiguration, after `await fetch('content/site/design.json')`
LoadDesignConfiguration(resp, found, old) ==
    CASE resp = "NetFail" -> Threw
      [] resp = "HttpError" -> Returned
      [] resp = "Malformed" -> Threw
      [] OTHER -> Wrote(":root", <<[tag |-> "style", property |-> "--maxw"]>>)

\* loadBlogLayoutConfiguration, after `await loadConfig()`: the footer year
LoadBlogLayoutConfiguration(config, found, old) ==
    IF ~Truthy(config) THEN Returned
    ELSE IF found /\ Has(config, "year")
         THEN Wrote("footer-year", <<TextNode(config.year)>>)
         ELSE Returned

\* loadBlogSiteMetadata, after `await loadConfig()`: the site name
LoadBlogSiteMetadata(config, found, old) ==
    IF ~Truthy(config) THEN Returned
    ELSE IF found /\ Has(config, "name")
         THEN Wrote("site-name", <<TextNode(config.name)>>)
         ELSE Returned

-----------------------------------------------------------------------------
(* The blog post *)

Paragraph(text) == [tag |-> "p", text |-> text]
NoPostSpecified == <<Paragraph("No blog post specified.")>>
PostNotFound == <<Paragraph("Blog post not found.")>>
ErrorLoadingPost == <<Paragraph("Error loading blog post.")>>
FallbackMessages == {NoPostSpecified, PostNotFound, ErrorLoadingPost}

\* the id parameters a blog page is opened with
BlogIds == {"", "post-1", "post-2", "post-3", "no-such-post"}

\* blogs.find(b => b.id === blogId): the entries with that id, first one first
FindBlog(items, id) == SelectSeq(items, LAMBDA b : b.id = id)

\* the body of a post
RenderPost(file) == <<[tag |-> "article", source |-> file]>>

\* a loadBlogPost that looks the post up whether or not the URL names one
LoadBlogPostStartFetching(id, found) == Fetches(BlogIndexPath, NoWrites)

\* loadBlogPost up to its first await, lines 698-711
LoadBlogPostStart(id, found) ==
    IF id = ""
    THEN ReturnedAfter(IF found THEN "blog-body" :> NoPostSpecified ELSE NoWrites)
    ELSE Fetches(BlogIndexPath, NoWrites)

\* the title and date elements set once the entry is found, lines 723-731
PostHeader(blog, titleFound) ==
    IF titleFound THEN "blog-title" :> <<TextNode(blog.id)>> ELSE NoWrites

\* loadBlogPost after `await loadYaml('content/blogs/blogs.yaml')`,
\* lines 713-747
LoadBlogPostIndexed(blogs, id, found, titleFound) ==
    IF ~Truthy(blogs)
    THEN ReturnedAfter(IF found THEN "blog-body" :> PostNotFound ELSE NoWrites)
    ELSE IF blogs.type # "list" THEN Threw
    ELSE LET hits == FindBlog(blogs.items, id)
         IN  IF hits = <<>>
             THEN ReturnedAfter(IF found THEN "blog-body" :> PostNotFound
                                ELSE NoWrites)
             ELSE LET blog == hits[1]
                      header == PostHeader(blog, titleFound)
                  IN  IF Has(blog, "content_file")
                      THEN Fetches(blog.content_file, header)
                      ELSE IF Has(blog, "markdown_file")
                           THEN Fetches(blog.markdown_file, header)
                           ELSE ThrewAfter(header)

\* outcomes of fetching a post's content file
PostResponses == {"NetFail", "Malformed", "Body"}

\* loadBlogPost after the fetch of the content file, lines 737-766; a
\* Markdown file is read as text, so no body of it is malformed
LoadBlogPostContent(resp, path, isJson, found) ==
    IF resp = "NetFail" \/ (resp = "Malformed" /\ isJson) THEN Threw
    ELSE IF found THEN Wrote("blog-body", RenderPost(path))
         ELSE ReturnedAfter(NoWrites)

\* a catch block that only logs the error
LoadBlogPostCatchSilent(found) == NoWrites

\* loadBlogPost's catch block, lines 768-774
LoadBlogPostCatch(found) ==
    IF found THEN "blog-body" :> ErrorLoadingPost ELSE NoWrites

-----------------------------------------------------------------------------
(* Page load: the document and the loaders as processes *)

\* an initializer that calls the content sections before the configuration
ContentFirstOrder ==
    <<"publications", "blogs", "timeline", "media", "profile", "social",
      "layout", "metadata", "design">>

\* initializeMainPage's calls, in order (lines 621-631)
MainOrder ==
    <<"layout", "metadata", "design", "profile", "social",
      "publications", "blogs", "timeline", "media">>
\* initializeBlogPage's calls, in order (lines 852-854)
BlogOrder == <<"blogLayout", "blogMetadata", "blogPost">>

MainLoaders == {MainOrder[i] : i \in 1..Len(MainOrder)}
BlogLoaders == {BlogOrder[i] : i \in 1..Len(BlogOrder)}
Loaders == MainLoaders \cup BlogLoaders

\* the element a loader renders into (":root" is document.documentElement)
Target(l) ==
    CASE l = "layout" -> "nav-links"
      [] l = "metadata" -> "site-name"
      [] l = "design" -> ":root"
      [] l = "profile" -> "profile-content"
      [] l = "social" -> "profile-socials"
      [] l = "publications" -> "publications-list"
      [] l = "blogs" -> "blog-list"
      [] l = "timeline" -> "timeline-list"
      [] l = "media" -> "media-list"
      [] l = "blogLayout" -> "footer-year"
      [] l = "blogMetadata" -> "site-name"
      [] l = "blogPost" -> "blog-body"

\* the documents a page load is checked on: the main page with every render
\* target, two main pages that each lack some of the targets, the blog page
\* with and without its optional elements, and a page that is neither
IndexPage == {":root"} \cup {Target(l) : l \in MainLoaders}
BlogPage == {":root"} \cup {Target(l) : l \in BlogLoaders} \cup {"blog-title"}
Documents ==
    {IndexPage,
     IndexPage \ {"nav-links", "profile-socials", "blog-list", "media-list"},
     IndexPage \ {"site-name", "publications-list", "timeline-list"},
     BlogPage,
     {":root", "blog-body"},
     {":root"}}

\* what the page's markup holds in an element before any loader runs
InitialContent(id) == IF id = "nav-links" THEN <<ThemeButton>> ELSE <<>>

\* document.getElementById(id) finds the element
Found(id) == id \in DOMAIN dom
ContentOf(id) == IF Found(id) THEN dom[id] ELSE <<>>

\* a page detection that looks for the main page first
MainPageFirst ==
    IF Found("profile-content") THEN "main"
    ELSE IF Found("blog-body") THEN "blog"
    ELSE "none"

\* page detection, lines 870-876
Page ==
    IF Found("blog-body") THEN "blog"
    ELSE IF Found("profile-content") THEN "main"
    ELSE "none"

\* an initializer of the main page that loads the design last
DesignLastOrder ==
    IF Page = "blog" THEN BlogOrder
    ELSE IF Page = "main"
         THEN <<"layout", "metadata", "profile", "social", "publications",
                "blogs", "timeline", "media", "design">>
    ELSE <<>>

\* the calls the page's initializer makes
InitOrder ==
    IF Page = "blog" THEN BlogOrder
    ELSE IF Page = "main" THEN MainOrder
    ELSE <<>>

\* a loadTimeline whose body is not wrapped in try/catch
TimelineUnguarded(l) == l # "timeline"

\* every loader's body is one try/catch that logs the error
HasTryCatch(l) == TRUE

\* what loader l's catch block writes
CatchWrites(l) ==
    IF l = "blogPost" THEN LoadBlogPostCatch(Found("blog-body")) ELSE NoWrites

\* the elements written by a continuation that ended with result r
WritesOf(l, r) ==
    IF r.outcome = "Threw" /\ HasTryCatch(l)
    THEN CatchWrites(l) @@ r.writes
    ELSE r.writes

\* the loader's continuation has run with result r
Apply(l, r) ==
    /\ state' = [state EXCEPT ![l] =
            CASE r.outcome = "Rendered" -> "Rendered"
              [] r.outcome = "Skipped" -> "Skipped"
              [] r.outcome = "Threw" -> "Failed"
              [] r.outcome = "Fetch" -> "Fetching"]
    /\ uncaught' = IF r.outcome = "Threw" /\ ~HasTryCatch(l)
                   THEN uncaught \cup {l} ELSE uncaught
    /\ requests' = IF r.outcome = "Fetch"
                   THEN [requests EXCEPT ![l] = Append(@, r.path)] ELSE requests
    /\ dom' = LET w == WritesOf(l, r)
              IN  IF DOMAIN w = {} THEN dom
                  ELSE [id \in DOMAIN dom |->
                           IF id \in DOMAIN w THEN w[id] ELSE dom[id]]

\* the continuation that follows `await loadConfig()` in loader l
AfterConfig(l, config) ==
    LET found == Found(Target(l))
        old == ContentOf(Target(l))
    IN  CASE l = "layout" -> LoadLayoutConfiguration(config, found, old)
          [] l = "metadata" -> LoadSiteMetadata(config, found, old)
          [] l = "profile" -> LoadProfileContent(config, found, old)
          [] l = "social" -> LoadSocialLinks(config, found, old)
          [] l = "blogLayout" -> LoadBlogLayoutConfiguration(config, found, old)
          [] l = "blogMetadata" -> LoadBlogSiteMetadata(config, found, old)

\* the continuation that follows `await loadYaml(path)` in loader l
AfterYaml(l, data) ==
    LET found == Found(Target(l))
        old == ContentOf(Target(l))
    IN  CASE l = "publications" -> LoadPublications(data, found, old)
          [] l = "blogs" -> LoadBlogs(data, found, old)
          [] l = "timeline" -> LoadTimeline(data, found, old)
          [] l = "media" -> LoadMedia(data, found, old)

\* loaders that share one fetch of config.yaml: a loadConfig caller that
\* finds a fetch in flight issues none of its own
CallResultSharingFetch(l) ==
    IF l \in ConfigLoaders
    THEN IF \E m \in DOMAIN requests : ConfigPath \in Range(requests[m])
         THEN Returned
         ELSE Fetches(ConfigPath, NoWrites)
    ELSE IF l = "design" THEN Fetches(DesignPath, NoWrites)
    ELSE IF l = "blogPost" THEN LoadBlogPostStart(blogId, Found("blog-body"))
    ELSE Fetches(YamlPath(l), NoWrites)

\* the part of loader l that runs when it is called, up to its first await:
\* a loadConfig caller with a filled cache goes on with the cached value,
\* loadBlogPost returns at once when the URL names no post, and every other
\* call suspends at its first fetch
CallResult(l) ==
    IF l \in ConfigLoaders
    THEN IF LoadConfigCached(siteConfig)
         THEN AfterConfig(l, siteConfig)
         ELSE Fetches(ConfigPath, NoWrites)
    ELSE IF l = "design" THEN Fetches(DesignPath, NoWrites)
    ELSE IF l = "blogPost" THEN LoadBlogPostStart(blogId, Found("blog-body"))
    ELSE Fetches(YamlPath(l), NoWrites)

\* the page initializer is synchronous: no continuation runs before its
\* last call has returned
InitializerRunning == initPc < Len(InitOrder)

\* initializeMainPage / initializeBlogPage calls its next loader
CallNextLoader ==
    /\ InitializerRunning
    /\ initPc' = initPc + 1
    /\ LET l == InitOrder[initPc + 1]
       IN  /\ ret' = IF l \in ConfigLoaders /\ LoadConfigCached(siteConfig)
                     THEN [ret EXCEPT ![l] = siteConfig] ELSE ret
           /\ Apply(l, CallResult(l))
    /\ UNCHANGED <<configFile, failedFetch, siteConfig, cfgWrites, blogId,
                   timelineData, runs,
                   functionVars, scrollVars>>

Awaiting(l, path) ==
    /\ ~InitializerRunning
    /\ state[l] = "Fetching"
    /\ requests[l][Len(requests[l])] = path

\* loadConfig, called by p, ends with result r: the cache is assigned when the
\* load succeeded, and p is handed the value
LoadConfigReturn(p, r) ==
    /\ siteConfig' = IF r.assigns THEN r.value ELSE siteConfig
    /\ cfgWrites' = IF r.assigns THEN cfgWrites + 1 ELSE cfgWrites
    /\ failedFetch' = IF r.assigns THEN failedFetch ELSE failedFetch \cup {p}
    /\ ret' = [ret EXCEPT ![p] = r.value]

\* the fetch of config.yaml issued for loader l settles: loadConfig returns
\* and l's continuation runs
SettleConfig(l) ==
    /\ Awaiting(l, ConfigPath)
    /\ \E resp \in ConfigResponses :
         LET r == LoadConfigSettle(resp, configFile)
         IN  /\ LoadConfigReturn(l, r)
             /\ Apply(l, AfterConfig(l, r.value))
    /\ UNCHANGED <<configFile, initPc, blogId, timelineData, runs,
                   functionVars, scrollVars>>

\* the fetch of bio.md settles
SettleBio ==
    /\ Awaiting("profile", BioPath)
    /\ \E resp \in BioResponses :
         /\ failedFetch' = IF resp = "NetFail"
                           THEN failedFetch \cup {"profile"} ELSE failedFetch
         /\ Apply("profile",
                  LoadProfileFromBio(resp, Found(Target("profile")),
                                     ContentOf(Target("profile"))))
    /\ UNCHANGED <<configFile, initPc, ret, siteConfig, cfgWrites, blogId,
                   timelineData, runs,
                   functionVars, scrollVars>>

\* the fetch of design.json settles
SettleDesign ==
    /\ Awaiting("design", DesignPath)
    /\ \E resp \in DesignResponses :
         /\ failedFetch' = IF resp = "Body"
                           THEN failedFetch ELSE failedFetch \cup {"design"}
         /\ Apply("design",
                  LoadDesignConfiguration(resp, TRUE, ContentOf(":root")))
    /\ UNCHANGED <<configFile, initPc, ret, siteConfig, cfgWrites, blogId,
                   timelineData, runs,
                   functionVars, scrollVars>>

\* the fetch of a YAML content file settles: loadYaml returns and the
\* loader's continuation runs
SettleYaml(l) ==
    /\ Awaiting(l, YamlPath(l))
    /\ \E resp \in YamlResponses :
         /\ failedFetch' = IF resp \in {"NetFail", "Malformed"}
                           THEN failedFetch \cup {l} ELSE failedFetch
         /\ Apply(l, AfterYaml(l, LoadYaml(resp, SiteItems(l))))
    /\ UNCHANGED <<configFile, initPc, ret, siteConfig, cfgWrites, blogId,
                   timelineData, runs,
                   functionVars, scrollVars>>

\* the fetch of the blog index issued by loadBlogPost settles
SettleBlogIndex ==
    /\ Awaiting("blogPost", BlogIndexPath)
    /\ \E resp \in YamlResponses :
         /\ failedFetch' = IF resp \in {"NetFail", "Malformed"}
                           THEN failedFetch \cup {"blogPost"} ELSE failedFetch
         /\ Apply("blogPost",
                  LoadBlogPostIndexed(LoadYaml(resp, BlogIndex), blogId,
                                      Found("blog-body"), Found("blog-title")))
    /\ UNCHANGED <<configFile, initPc, ret, siteConfig, cfgWrites, blogId,
                   timelineData, runs,
                   functionVars, scrollVars>>

\* the fetch of the post's content file settles
SettleBlogContent ==
    /\ ~InitializerRunning
    /\ state["blogPost"] = "Fetching"
    /\ Len(requests["blogPost"]) = 2
    /\ \E resp \in PostResponses :
         LET path == requests["blogPost"][2]
             isJson == path = BlogIndex[1].content_file
         IN  /\ failedFetch' =
                   IF resp = "NetFail" \/ (resp = "Malformed" /\ isJson)
                   THEN failedFetch \cup {"blogPost"} ELSE failedFetch
             /\ Apply("blogPost",
                      LoadBlogPostContent(resp, path, isJson, Found("blog-body")))
    /\ UNCHANGED <<configFile, initPc, ret, siteConfig, cfgWrites, blogId,
                   timelineData, runs,
                   functionVars, scrollVars>>

Init ==
    /\ configFile \in PageConfigTexts
    /\ initPc = 0
    /\ state = [l \in Loaders |-> "Unloaded"]
    /\ requests = [l \in Loaders |-> <<>>]
    /\ failedFetch = {}
    /\ ret = [l \in Loaders |-> NotReturned]
    /\ siteConfig = Null
    /\ cfgWrites = 0
    /\ \E doc \in Documents : dom = [id \in doc |-> InitialContent(id)]
    /\ uncaught = {}
    /\ blogId \in IF Page = "blog" THEN BlogIds ELSE {""}
    /\ timelineData = <<>>
    /\ runs = 0
    /\ NoFunction /\ NoScroll

Next ==
    \/ CallNextLoader
    \/ \E l \in ConfigLoaders : SettleConfig(l)
    \/ SettleBio
    \/ SettleDesign
    \/ \E l \in YamlLoaders : SettleYaml(l)
    \/ SettleBlogIndex
    \/ SettleBlogContent

Spec == Init /\ [][Next]_vars

-----------------------------------------------------------------------------
(* Properties of a page load *)

Terminal == {"Rendered", "Skipped", "Failed"}
Called == {InitOrder[i] : i \in 1..Len(InitOrder)}

\* the step taken finishes loader l
Finishes(l) == state[l] \notin Terminal /\ state'[l] \in Terminal

\* loader l's pending fetch can settle now
CanSettle(l) ==
    \/ l \in ConfigLoaders /\ ENABLED SettleConfig(l)
    \/ l \in YamlLoaders /\ ENABLED SettleYaml(l)
    \/ l = "profile" /\ ENABLED SettleBio
    \/ l = "design" /\ ENABLED SettleDesign
    \/ l = "blogPost" /\ (ENABLED SettleBlogIndex \/ ENABLED SettleBlogContent)

\* C1: on the main page no error leaves the loader it arose in, every loader
\* is called whatever happens to the others, and a loader returns without
\* rendering only when its own fetch failed or its own target is absent
C1_FailuresIsolated ==
    Page = "main" =>
      /\ uncaught = {}
      /\ ~InitializerRunning => \A l \in MainLoaders : state[l] # "Unloaded"
      /\ \A l \in MainLoaders :
           state[l] = "Skipped" => l \in failedFetch \/ ~Found(Target(l))

\* C1 witness: one loader's fetch failed, another threw while rendering, and
\* a third has rendered
C1_Witness ==
    /\ Page = "main"
    /\ state["publications"] = "Skipped" /\ "publications" \in failedFetch
    /\ state["blogs"] = "Failed"
    /\ state["timeline"] = "Rendered"
    /\ state["media"] = "Rendered"

\* the loadConfig callers that were handed a configuration
Configured == {l \in ConfigLoaders : ret[l].type = "map"}

\* C2 as stated: the configuration cache is written at most once
C2_WrittenAtMostOnce == cfgWrites <= 1

\* C2 amended: the cache is assigned once by each loadConfig call whose
\* fetch and parse succeeded and by no other, and it is non-null exactly
\* from the first such call on
C2_WrittenOncePerSuccessfulCall ==
    /\ cfgWrites = Cardinality(Configured)
    /\ Truthy(siteConfig) <=> cfgWrites > 0

\* C2 witness: all four loadConfig calls of the main page have written
C2_Witness == Page = "main" /\ cfgWrites = 4 /\ Truthy(siteConfig)

NoDuplicates(s) == \A i, j \in 1..Len(s) : s[i] = s[j] => i = j

\* C5 as stated: a section leaves Unloaded only by starting a fetch
C5_LeavesUnloadedByFetching ==
    [][\A l \in Loaders :
         state[l] = "Unloaded" /\ state'[l] # "Unloaded"
           => state'[l] = "Fetching"]_vars

\* C5 amended: a section leaves Unloaded by starting a fetch, or, for
\* loadBlogPost with no id in the URL, by showing its message without any
\* fetch; a settled fetch finishes the section or is followed by the fetch of
\* another resource; a finished section never changes; no resource is
\* fetched twice by one loader
C5_SectionLifecycle ==
    [][\A l \in Loaders :
         /\ state[l] = "Unloaded" /\ state'[l] # "Unloaded" =>
              \/ state'[l] = "Fetching" /\ Len(requests'[l]) = 1
              \/ l = "blogPost" /\ blogId = "" /\ state'[l] = "Skipped"
                 /\ requests'[l] = <<>>
         /\ state[l] = "Fetching" =>
              \/ state'[l] = "Fetching" /\ requests'[l] = requests[l]
              \/ state'[l] = "Fetching"
                 /\ Len(requests'[l]) = Len(requests[l]) + 1
              \/ state'[l] \in Terminal /\ requests'[l] = requests[l]
         /\ state[l] \in Terminal =>
              state'[l] = state[l] /\ requests'[l] = requests[l]
         /\ NoDuplicates(requests'[l])]_vars

\* C5 witness: a section whose first fetch failed went on to a second
\* resource, whose fetch failed too, and is finished
C5_Witness ==
    /\ state["profile"] = "Failed"
    /\ requests["profile"] = <<ConfigPath, BioPath>>
    /\ state["timeline"] = "Rendered"

Finished(l) == state[l] \in Terminal

\* C6 as stated: a finished section whose fetch failed shows a fallback
\* message in its render target
C6_FailedFetchShowsMessage ==
    \A l \in Loaders :
      Finished(l) /\ l \in failedFetch /\ Found(Target(l))
        => dom[Target(l)] \in FallbackMessages

\* C6 amended: loadBlogPost shows "Blog post not found." or "Error loading
\* blog post." when its fetch failed; every other loader whose fetch failed
\* leaves its target as the page's markup had it, except that
\* loadProfileContent falls back to bio.md when the configuration fails
C6_FallbackOnlyForBlogPost ==
    /\ Finished("blogPost") /\ "blogPost" \in failedFetch
         => dom["blog-body"] \in {PostNotFound, ErrorLoadingPost}
    /\ \A l \in Called \ {"blogPost", "profile"} :
         Finished(l) /\ l \in failedFetch /\ Found(Target(l))
           => dom[Target(l)] = InitialContent(Target(l))
    /\ state["profile"] = "Failed"
         => dom["profile-content"] = InitialContent("profile-content")

\* C6 witness: the post's content file failed to load and the error message
\* is shown
C6_Witness ==
    /\ state["blogPost"] = "Failed"
    /\ "blogPost" \in failedFetch
    /\ Len(requests["blogPost"]) = 2
    /\ dom["blog-body"] = ErrorLoadingPost

C8_ConfigFirstNoBlocking ==
    Page = "main" =>
      /\ \A c \in MainLoaders \ {"layout", "metadata", "design"} :
           requests[c] # <<>> =>
             \A k \in {"layout", "metadata", "design"} : requests[k] # <<>>
      /\ ~InitializerRunning =>
           \A l \in MainLoaders : state[l] = "Fetching" => CanSettle(l)

\* C8 witness: the loader called last has finished while the one called
\* first is still suspended
C8_Witness ==
    /\ Page = "main"
    /\ state["media"] = "Rendered"
    /\ state["layout"] = "Fetching"

-----------------------------------------------------------------------------
(* loadConfig on its own: callers that call it at any time *)

Callers == 1..MaxCallers

\* caller c calls loadConfig: a filled cache is returned at once, otherwise
\* the call suspends at its fetch
CallLoadConfig(c) ==
    /\ state[c] = "Unloaded"
    /\ IF LoadConfigCached(siteConfig)
       THEN /\ ret' = [ret EXCEPT ![c] = siteConfig]
            /\ state' = [state EXCEPT ![c] = "Returned"]
            /\ UNCHANGED requests
       ELSE /\ requests' = [requests EXCEPT ![c] = Append(@, ConfigPath)]
            /\ state' = [state EXCEPT ![c] = "Fetching"]
            /\ UNCHANGED ret
    /\ UNCHANGED <<configFile, initPc, failedFetch, siteConfig, cfgWrites, dom,
                   uncaught, blogId, timelineData, runs,
                   functionVars, scrollVars>>

\* the fetch issued for caller c settles and loadConfig returns
ReturnLoadConfig(c) ==
    /\ state[c] = "Fetching"
    /\ \E resp \in ConfigResponses :
         LoadConfigReturn(c, LoadConfigSettle(resp, configFile))
    /\ state' = [state EXCEPT ![c] = "Returned"]
    /\ UNCHANGED <<configFile, initPc, requests, dom, uncaught, blogId,
                   timelineData, runs,
                   functionVars, scrollVars>>

InitConfig ==
    /\ configFile \in ConfigTexts
    /\ initPc = 0
    /\ state = [c \in Callers |-> "Unloaded"]
    /\ requests = [c \in Callers |-> <<>>]
    /\ failedFetch = {}
    /\ ret = [c \in Callers |-> NotReturned]
    /\ siteConfig = Null
    /\ cfgWrites = 0
    /\ dom = <<>>
    /\ uncaught = {}
    /\ blogId = ""
    /\ timelineData = <<>>
    /\ runs = 0
    /\ NoFunction /\ NoScroll

NextConfig ==
    \/ \E c \in Callers : CallLoadConfig(c)
    \/ \E c \in Callers : ReturnLoadConfig(c)

SpecConfig == InitConfig /\ [][NextConfig]_vars

\* C4: once some loadConfig call has returned a configuration, a call that
\* starts returns the cached configuration at once: it issues no fetch and
\* writes nothing
C4_CachedAfterSuccess ==
    [][\A c \in Callers :
         /\ state[c] = "Unloaded" /\ state'[c] # "Unloaded"
         /\ \E d \in Callers : ret[d].type = "map"
         => /\ state'[c] = "Returned"
            /\ requests'[c] = <<>>
            /\ ret'[c] = siteConfig /\ ret'[c].type = "map"
            /\ cfgWrites' = cfgWrites]_vars

\* C4 witness: a call made after a successful one has returned the cached
\* configuration without a fetch
C4_Witness ==
    \E c, d \in Callers :
      /\ requests[d] = <<ConfigPath>> /\ ret[d].type = "map"
      /\ requests[c] = <<>> /\ state[c] = "Returned" /\ ret[c] = ret[d]

-----------------------------------------------------------------------------
(* timeline.js: the self-contained timeline loader *)

\* timeline.js's comparator: dateB - dateA, over startDate
LegacyCompare(a, b) == b.startDate - a.startDate

RECURSIVE LegacyInsertSorted(_, _)
LegacyInsertSorted(s, x) ==
    IF s = <<>> THEN <<x>>
    ELSE IF LegacyCompare(Head(s), x) <= 0
         THEN <<Head(s)>> \o LegacyInsertSorted(Tail(s), x)
         ELSE <<x>> \o s

RECURSIVE LegacySortFrom(_, _)
LegacySortFrom(done, rest) ==
    IF rest = <<>> THEN done
    ELSE LegacySortFrom(LegacyInsertSorted(done, Head(rest)), Tail(rest))

LegacySortTimeline(items) == LegacySortFrom(<<>>, items)

\* one entry as timeline.js renders it
LegacyTimelineItemHTML(item) ==
    [tag |-> "timeline-item",
     year |-> GetFullYear(item.startDate),
     organization |-> item.organization]
\* timeline.forEach: the entries' fragments, in the list's order
LegacyTimelineItems(items) ==
    [i \in 1..Len(items) |-> LegacyTimelineItemHTML(items[i])]

LegacyEntries(f) ==
    [i \in 1..Len(f) |-> [startDate |-> f[i], organization |-> i]]

\* what the fetch of timeline.json and response.json() give
LegacyResponses == {"NetFail", "Malformed", "Scalar", "Items"}

\* timeline.js loadTimeline: each entry is added to the container's content
LoadLegacyTimeline(resp, items, found, old) ==
    IF resp \in {"NetFail", "Malformed"} THEN Threw
    ELSE IF ~found THEN Returned
    ELSE IF resp = "Scalar" THEN Threw
    ELSE Wrote("timeline-list",
               old \o LegacyTimelineItems(LegacySortTimeline(items)))

-----------------------------------------------------------------------------
(* Section loaders run again and again over one document and one data set *)

RenderLoaders == {"social", "timeline", "legacyTimeline"}

RenderTarget(l) ==
    IF l = "social" THEN "profile-socials" ELSE "timeline-list"

RenderDocuments ==
    {[id \in ids |-> <<>>] : ids \in SUBSET {"profile-socials", "timeline-list"}}

\* loader l has run to its end with result r
Ran(l, r) ==
    /\ runs' = [runs EXCEPT ![l] = @ + 1]
    /\ Apply(l, r)
    /\ UNCHANGED <<configFile, initPc, failedFetch, ret, siteConfig, cfgWrites,
                   blogId, timelineData,
                   functionVars, scrollVars>>

\* loadSocialLinks runs with the cached configuration
RunSocialLinks ==
    /\ runs["social"] < MaxRuns
    /\ Ran("social", LoadSocialLinks(siteConfig, Found("profile-socials"),
                                     ContentOf("profile-socials")))

\* main.js loadTimeline runs
RunTimeline ==
    /\ runs["timeline"] < MaxRuns
    /\ \E resp \in YamlResponses :
         Ran("timeline", LoadTimeline(LoadYaml(resp, Entries(timelineData)),
                                      Found("timeline-list"),
                                      ContentOf("timeline-list")))

\* timeline.js loadTimeline runs
RunLegacyTimeline ==
    /\ runs["legacyTimeline"] < MaxRuns
    /\ \E resp \in LegacyResponses :
         Ran("legacyTimeline",
             LoadLegacyTimeline(resp, LegacyEntries(timelineData),
                                Found("timeline-list"),
                                ContentOf("timeline-list")))

InitRender ==
    /\ configFile = "config-full"
    /\ initPc = 0
    /\ state = [l \in RenderLoaders |-> "Unloaded"]
    /\ requests = [l \in RenderLoaders |-> <<>>]
    /\ failedFetch = {}
    /\ ret = [l \in RenderLoaders |-> NotReturned]
    /\ siteConfig = FullConfig
    /\ cfgWrites = 1
    /\ dom \in RenderDocuments
    /\ uncaught = {}
    /\ blogId = ""
    /\ timelineData \in TimelineFiles
    /\ runs = [l \in RenderLoaders |-> 0]
    /\ NoFunction /\ NoScroll

NextRender ==
    \/ RunSocialLinks
    \/ RunTimeline
    \/ RunLegacyTimeline

SpecRender == InitRender /\ [][NextRender]_vars

-----------------------------------------------------------------------------
(* Properties of the section loaders *)

\* the fragments loader l renders from the data, in the order it renders them
Fragments(l) ==
    CASE l = "social" -> SocialLinks(siteConfig.contacts)
      [] l = "timeline" ->
           TimelineItems(SortTimeline(Entries(timelineData)))
      [] l = "legacyTimeline" ->
           LegacyTimelineItems(LegacySortTimeline(LegacyEntries(timelineData)))

\* C9 as claimed: a run of a section loader that renders leaves its target
\* holding exactly the loader's fragments, whatever the target held before,
\* so that a second run changes nothing
C9_RunReplacesTarget ==
    [][\A l \in RenderLoaders :
         runs'[l] = runs[l] + 1 /\ state'[l] = "Rendered"
         => dom'[RenderTarget(l)] = Fragments(l)]_vars

\* the start date of the entry a rendered timeline fragment came from
StartOf(fragment) == timelineData[fragment.organization]

\* C10: each rendering of the timeline holds every entry once, most recent
\* start date first, entries with equal start dates in their source order
C10_TimelineDescendingStable ==
    LET c == ContentOf("timeline-list")
        n == Len(timelineData)
        SameRun(i, j) == (i - 1) \div n = (j - 1) \div n
    IN  /\ n = 0 => c = <<>>
        /\ n > 0 =>
             /\ Len(c) % n = 0
             /\ \A i, j \in 1..Len(c) :
                  i < j /\ SameRun(i, j)
                  => /\ StartOf(c[i]) >= StartOf(c[j])
                     /\ StartOf(c[i]) = StartOf(c[j])
                        => c[i].organization < c[j].organization
             /\ \A i \in 1..Len(c) :
                  /\ c[i].organization \in 1..n
                  /\ c[i].year = GetFullYear(StartOf(c[i]))

\* C10 witness: entries dated 2020, 2022, 2020 have been rendered by main.js
\* loadTimeline as 2022, then the first 2020 entry, then the second
C10_Witness ==
    /\ timelineData = <<Ym(2020, 1), Ym(2022, 1), Ym(2020, 1)>>
    /\ runs["timeline"] >= 1
    /\ runs["legacyTimeline"] = 0
    /\ ContentOf("timeline-list") =
         <<[tag |-> "timeline-item", year |-> 2022, organization |-> 2],
           [tag |-> "timeline-item", year |-> 2020, organization |-> 1],
           [tag |-> "timeline-item", year |-> 2020, organization |-> 3]>>

-----------------------------------------------------------------------------
(* The year range of a timeline entry *)

\* an entry's end date: the field is missing, it holds a date, or it holds
\* some other text
NoEndDate == [type |-> "absent"]
EndDate(d) == [type |-> "date", date |-> d]
EndText(t) == [type |-> "text", text |-> t]
EndTexts == {"", "present", "Present", "PRESENT", "ongoing"}
EndDates ==
    {NoEndDate} \cup {EndDate(d) : d \in Dates} \cup {EndText(t) : t \in EndTexts}

\* `if (item.end_date)`: the field is there and is not the empty string
HasEndDate(e) == e.type = "date" \/ (e.type = "text" /\ e.text # "")

\* a comparison of end dates that tells the letter cases apart
CaseSensitive(t) == t

\* String.prototype.toLowerCase, on the texts of the model
ToLowerCase(t) ==
    CASE t = "Present" -> "present"
      [] t = "PRESENT" -> "present"
      [] OTHER -> t

\* `new Date(end).getFullYear()` as it is interpolated in the template: the
\* year, or NaN for a text that is no date
EndYearOf(e) == IF e.type = "date" THEN ToString(GetFullYear(e.date)) ELSE "NaN"

\* main.js lines 206-214 / timeline.js lines 21-29: endYear
EndYear(e) ==
    IF ~HasEndDate(e) THEN ""
    ELSE IF e.type = "text" /\ ToLowerCase(e.text) = "present" THEN "Present"
    ELSE EndYearOf(e)

\* `endYear ? ... : ...`: the empty string and NaN are falsy
EndYearTruthy(y) == y \notin {"", "NaN"}

\* main.js lines 203-216: yearRange
YearRange(item) ==
    LET startYear == ToString(GetFullYear(item.start_date))
        endYear == EndYear(item.end_date)
    IN  IF EndYearTruthy(endYear)
        THEN startYear \o " - " \o endYear
        ELSE startYear \o " -"

\* timeline.js lines 18-31: yearRange
LegacyYearRange(item) ==
    LET startYear == ToString(GetFullYear(item.startDate))
        endYear == EndYear(item.endDate)
    IN  IF EndYearTruthy(endYear)
        THEN startYear \o " - " \o endYear
        ELSE startYear \o " -"

\* the entries whose year range is rendered
DatedEntries == [start_date : Dates, end_date : EndDates]

\* main.js loadTimeline renders the entry's year range
RenderYearRange ==
    /\ pc = 0
    /\ output' = [by |-> "main.js", text |-> YearRange(input)]
    /\ pc' = 1
    /\ UNCHANGED <<input, loaderVars, dom, scrollVars>>

\* timeline.js loadTimeline renders the year range of the same entry, held
\* under timeline.json's field names
RenderLegacyYearRange ==
    /\ pc = 0
    /\ output' = [by |-> "timeline.js",
                  text |-> LegacyYearRange([startDate |-> input.start_date,
                                            endDate |-> input.end_date])]
    /\ pc' = 1
    /\ UNCHANGED <<input, loaderVars, dom, scrollVars>>

\* the loader variables, at rest
NoLoaders ==
    /\ configFile = "config-full"
    /\ initPc = 0
    /\ state = <<>>
    /\ requests = <<>>
    /\ failedFetch = {}
    /\ ret = <<>>
    /\ siteConfig = Null
    /\ cfgWrites = 0
    /\ uncaught = {}
    /\ blogId = ""
    /\ timelineData = <<>>
    /\ runs = 0

InitYearRange ==
    /\ NoLoaders /\ NoScroll
    /\ dom = <<>>
    /\ input \in DatedEntries
    /\ output = Null
    /\ pc = 0

NextYearRange ==
    \/ RenderYearRange
    \/ RenderLegacyYearRange

SpecYearRange == InitYearRange /\ [][NextYearRange]_vars

\* C11: the rendered year range is "<start year> - Present" for an end date
\* that is "present" in any letter case, "<start year> - <end year>" for an
\* end date that is a date, and "<start year> -" for an entry with no end
\* date (and for an end text that is no date)
C11_YearRange ==
    pc = 1 =>
      LET e == input.end_date
          startYear == ToString(input.start_date \div 12)
      IN  /\ e.type = "text" /\ e.text \in {"present", "Present", "PRESENT"}
               => output.text = startYear \o " - Present"
          /\ e.type = "date"
               => output.text = startYear \o " - " \o ToString(e.date \div 12)
          /\ e.type = "absent" => output.text = startYear \o " -"
          /\ e.type = "text" /\ e.text \in {"", "ongoing"}
               => output.text = startYear \o " -"

\* C11 witness: an entry begun in 2020 whose end date is "PRESENT" has been
\* rendered by timeline.js as "2020 - Present"
C11_Witness ==
    /\ input = [start_date |-> Ym(2020, 7), end_date |-> EndText("PRESENT")]
    /\ output = [by |-> "timeline.js", text |-> "2020 - Present"]

-----------------------------------------------------------------------------
(* The table of contents of a blog post *)

\* the elements of a rendered post: level-2 and level-3 headings, paragraphs
BodyTags == {"h2", "h3", "p"}
BodyElement(tag, i) == [tag |-> tag, text |-> "block " \o ToString(i), id |-> ""]
PostBodies ==
    UNION {{[i \in 1..n |-> BodyElement(tags[i], i)] : tags \in [1..n -> BodyTags]}
           : n \in 0..MaxBlocks}

\* blogBody.querySelectorAll('h2, h3'): the positions of the headings in the
\* body, in document order
IsHeading(e) == e.tag \in {"h2", "h3"}
Headings(body) ==
    SelectSeq([i \in 1..Len(body) |-> i], LAMBDA i : IsHeading(body[i]))

\* identifiers that count the headings from one
SectionIdFromOne(index) == "section-" \o ToString(index + 1)

\* line 799: `section-${index}`
SectionId(index) == "section-" \o ToString(index)

\* line 800: every heading is given the identifier of its index
WithSectionIds(body) ==
    LET hs == Headings(body)
    IN  [i \in 1..Len(body) |->
           IF IsHeading(body[i])
           THEN LET k == CHOOSE k \in 1..Len(hs) : hs[k] = i
                IN  [body[i] EXCEPT !.id = SectionId(k - 1)]
           ELSE body[i]]

\* lines 803-821: the list item made for a heading
TocItem(heading) ==
    [href |-> "#" \o heading.id,
     text |-> heading.text,
     indented |-> heading.tag = "h3",
     active |-> FALSE]

\* a test that never finds the post without headings
NeverEmpty(hs) == FALSE

\* line 790: headings.length === 0
NoHeadings(hs) == Len(hs) = 0

\* the listener registered at line 826, with its activeLink
ScrollListener == [event |-> "scroll", activeLink |-> ""]

\* generateTableOfContents, lines 781-845: the document and the listeners it
\* leaves behind
GenerateTableOfContents(d, ls) ==
    IF "blog-body" \notin DOMAIN d \/ "toc-list" \notin DOMAIN d
    THEN [dom |-> d, listeners |-> ls]
    ELSE LET hs == Headings(d["blog-body"])
             body == WithSectionIds(d["blog-body"])
         IN  IF NoHeadings(hs)
             THEN [dom |-> [id \in DOMAIN d |->
                              IF id = "blog-toc"
                              THEN [d[id] EXCEPT !.display = "none"]
                              ELSE d[id]],
                   listeners |-> ls]
             ELSE [dom |-> [id \in DOMAIN d |->
                              CASE id = "blog-body" -> body
                                [] id = "toc-list" ->
                                     d[id] \o [k \in 1..Len(hs) |->
                                                 TocItem(body[hs[k]])]
                                [] OTHER -> d[id]],
                   listeners |-> Append(ls, ScrollListener)]

\* a heading counts as scrolled past only above the offset
StrictlyAbove(top) == top < 100

\* line 830: rect.top <= 100
ScrolledPast(top) == top <= 100

\* lines 827-833: the id of the last heading scrolled past, '' when none is
CurrentSection(body, tops) ==
    LET hs == Headings(body)
        past == {k \in 1..Len(hs) : ScrolledPast(tops[k])}
    IN  IF past = {} THEN ""
        ELSE body[hs[CHOOSE k \in past : \A j \in past : j <= k]].id

\* lines 835-843: the outline after the listener has run
Highlight(toc, listener, current) ==
    IF current # "" /\ current # listener.activeLink
    THEN [k \in 1..Len(toc) |->
            [toc[k] EXCEPT !.active = (toc[k].href = "#" \o current)]]
    ELSE toc

\* line 842: activeLink after the listener has run
ActiveLink(listener, current) ==
    IF current # "" /\ current # listener.activeLink
    THEN current ELSE listener.activeLink


\* the blog page's markup around a rendered post: the outline list and its
\* container may each be missing
TocDocuments ==
    {[id \in {"blog-body"} \cup ids |->
        CASE id = "blog-body" -> body
          [] id = "toc-list" -> <<>>
          [] id = "blog-toc" -> [display |-> "block"]]
     : body \in PostBodies, ids \in SUBSET {"toc-list", "blog-toc"}}

\* the positions the window can be scrolled to; the i-th element of the
\* body lies 150 units below the one before it
ScrollPositions == {0, 50, 51, 200, 350, 500}
Tops(body, y) ==
    LET hs == Headings(body)
    IN  [k \in 1..Len(hs) |-> 150 * hs[k] - y]

\* loadBlogPost, line 766: the table of contents of the rendered post is
\* generated, once
TocGenerate ==
    /\ pc = 0
    /\ pc' = 1
    /\ LET r == GenerateTableOfContents(dom, listeners)
       IN  dom' = r.dom /\ listeners' = r.listeners
    /\ UNCHANGED <<input, output, headingTops, loaderVars>>

\* the window is scrolled and the scroll event is dispatched to the listener
TocScroll ==
    /\ pc = 1
    /\ \E y \in ScrollPositions :
         headingTops' = Tops(dom["blog-body"], y)
    /\ IF listeners = <<>>
       THEN UNCHANGED <<dom, listeners>>
       ELSE LET current == CurrentSection(dom["blog-body"], headingTops')
            IN  /\ dom' = [dom EXCEPT !["toc-list"] =
                                 Highlight(@, listeners[1], current)]
                /\ listeners' = [listeners EXCEPT ![1].activeLink =
                                   ActiveLink(listeners[1], current)]
    /\ UNCHANGED <<input, output, pc, loaderVars>>

InitToc ==
    /\ NoLoaders /\ NoFunction
    /\ dom \in TocDocuments
    /\ listeners = <<>>
    /\ \E y \in {0, 200} : headingTops = Tops(dom["blog-body"], y)

NextToc ==
    \/ TocGenerate
    \/ TocScroll

SpecToc == InitToc /\ [][NextToc]_vars

-----------------------------------------------------------------------------
(* Properties of the table of contents *)

\* the headings of the post, in document order, and the outline
PostHeadings ==
    LET body == dom["blog-body"] IN [k \in 1..Len(Headings(body)) |->
                                       body[Headings(body)[k]]]
Outline == IF "toc-list" \in DOMAIN dom THEN dom["toc-list"] ELSE <<>>
Highlighted == {k \in 1..Len(Outline) : Outline[k].active}

\* C12: once the table of contents of a post with n >= 1 headings has been
\* generated (the outline list being in the page), the i-th heading, counted
\* from zero, has the identifier section-<i>, and the outline has exactly n
\* entries, the i-th linking to #section-<i> under the heading's text
C12_PositionalIdentifiers ==
    pc = 1 /\ "toc-list" \in DOMAIN dom /\ Len(PostHeadings) >= 1 =>
      /\ Len(Outline) = Len(PostHeadings)
      /\ \A k \in 1..Len(PostHeadings) :
           /\ PostHeadings[k].id = "section-" \o ToString(k - 1)
           /\ Outline[k].href = "#section-" \o ToString(k - 1)
           /\ Outline[k].text = PostHeadings[k].text

\* C12 witness: a post made of an h2, a paragraph and two h3 has the
\* identifiers section-0, section-1, section-2 and three outline entries
C12_Witness ==
    /\ pc = 1
    /\ [i \in 1..Len(dom["blog-body"]) |-> dom["blog-body"][i].tag]
         = <<"h2", "p", "h3", "h3">>
    /\ [i \in 1..Len(dom["blog-body"]) |-> dom["blog-body"][i].id]
         = <<"section-0", "", "section-1", "section-2">>
    /\ [k \in 1..Len(Outline) |-> Outline[k].href]
         = <<"#section-0", "#section-1", "#section-2">>

\* C13: once the table of contents of a post with no heading has been
\* generated, the outline's container is hidden, the outline has no entry
\* and no scroll listener is registered
C13_NoHeadingsHidesOutline ==
    pc = 1 /\ Len(PostHeadings) = 0 =>
      /\ {"toc-list", "blog-toc"} \subseteq DOMAIN dom
           => dom["blog-toc"].display = "none"
      /\ Outline = <<>>
      /\ listeners = <<>>

\* C13 witness: a post of two paragraphs whose outline container is hidden
C13_Witness ==
    /\ pc = 1
    /\ Len(dom["blog-body"]) = 2 /\ Len(PostHeadings) = 0
    /\ "toc-list" \in DOMAIN dom
    /\ "blog-toc" \in DOMAIN dom /\ dom["blog-toc"].display = "none"
    /\ listeners = <<>>

\* the outline entries of the last heading whose top is at most 100
LastScrolledPast(tops) ==
    LET past == {k \in DOMAIN tops : tops[k] <= 100}
    IN  {k \in past : \A j \in past : j <= k}

\* a scroll event has been handled by the registered listener
ScrollHandled == pc = 1 /\ pc' = 1 /\ listeners # <<>>

\* C14 as claimed: after every scroll event the highlighted entries are
\* exactly the entry of the last heading with top <= 100
C14_HighlightFollowsEveryScroll ==
    [][ScrollHandled => Highlighted' = LastScrolledPast(headingTops')]_vars

\* C14 amended: after a scroll event that leaves some heading with
\* top <= 100, exactly the entry of the last such heading is highlighted;
\* a scroll event that leaves none changes no highlight; at most one entry
\* is highlighted at any time
C14_HighlightFollowsScrollPast ==
    [][/\ ScrollHandled =>
            IF LastScrolledPast(headingTops') # {}
            THEN Highlighted' = LastScrolledPast(headingTops')
            ELSE Highlighted' = Highlighted
       /\ Cardinality(Highlighted') <= 1]_vars

\* C14 witness: with three headings, two of them scrolled past, the second
\* entry alone is highlighted
C14_Witness ==
    /\ Len(Outline) = 3
    /\ Len(headingTops) = 3
    /\ headingTops[2] <= 100 /\ headingTops[3] > 100
    /\ Highlighted = {2}
    /\ listeners[1].activeLink = "section-1"

-----------------------------------------------------------------------------
(* Markdown by regular-expression substitution.  A text is a sequence of   *)
(* characters; a tag written by a substitution is one element of it, which *)
(* no pattern matches.                                                     *)

\* the first index from `from` on at which s holds c, 0 when there is none
FirstIndex(s, from, c) ==
    LET found == {i \in from..Len(s) : s[i] = c}
    IN  IF found = {} THEN 0 ELSE CHOOSE i \in found : \A j \in found : i <= j

\* s holds the characters p from index i on
StartsWithAt(s, i, p) ==
    /\ i >= 1 /\ i + Len(p) - 1 <= Len(s)
    /\ \A k \in 1..Len(p) : s[i + k - 1] = p[k]

\* a pattern that takes any bracketed text for a link
BracketMatch(s, i) ==
    LET j == IF s[i] = "[" THEN FirstIndex(s, i + 1, "]") ELSE 0
    IN  [ok |-> j > i + 1, mid |-> j, end |-> j]

\* /\[([^\]]+)\]\(([^)]+)\)/ tried at index i: whether it matches, where its
\* "]" is and where its ")" is
LinkMatch(s, i) ==
    LET j == IF s[i] = "[" THEN FirstIndex(s, i + 1, "]") ELSE 0
        k == IF j > i + 1 /\ j + 1 <= Len(s) /\ s[j + 1] = "("
             THEN FirstIndex(s, j + 2, ")") ELSE 0
    IN  [ok |-> k > j + 2, mid |-> j, end |-> k]

\* '<a href="$2" target="_blank">$1</a>'
LinkHTML(text, url) ==
    <<"<a href=\"">> \o url \o <<"\" target=\"", "_", "blank\">">> \o text
      \o <<"</a>">>

RECURSIVE ReplaceLinksFrom(_, _)
\* the global replace of the link pattern, from index i on
ReplaceLinksFrom(s, i) ==
    IF i > Len(s) THEN <<>>
    ELSE LET m == LinkMatch(s, i)
         IN  IF m.ok
             THEN LinkHTML(SubSeq(s, i + 1, m.mid - 1),
                           SubSeq(s, m.mid + 2, m.end - 1))
                    \o ReplaceLinksFrom(s, m.end + 1)
             ELSE <<s[i]>> \o ReplaceLinksFrom(s, i + 1)

\* .replace(/\[([^\]]+)\]\(([^)]+)\)/g, '<a href="$2" target="_blank">$1</a>')
ReplaceLinks(s) == ReplaceLinksFrom(s, 1)

\* /DD([^c]+)DD/ tried at index i, for a delimiter DD made of the character
\* c: where the closing delimiter starts, 0 when there is no match
DelimitedMatch(s, i, delim, c) ==
    LET j == IF StartsWithAt(s, i, delim)
             THEN FirstIndex(s, i + Len(delim), c) ELSE 0
    IN  IF j > i + Len(delim) /\ StartsWithAt(s, j, delim) THEN j ELSE 0

RECURSIVE ReplaceDelimitedFrom(_, _, _, _, _)
\* the global replace of /DD([^c]+)DD/ by <tag>$1</tag>, from index i on
ReplaceDelimitedFrom(s, i, delim, c, tag) ==
    IF i > Len(s) THEN <<>>
    ELSE LET j == DelimitedMatch(s, i, delim, c)
         IN  IF j > 0
             THEN <<"<" \o tag \o ">">> \o SubSeq(s, i + Len(delim), j - 1)
                    \o <<"</" \o tag \o ">">>
                    \o ReplaceDelimitedFrom(s, j + Len(delim), delim, c, tag)
             ELSE <<s[i]>> \o ReplaceDelimitedFrom(s, i + 1, delim, c, tag)

\* .replace(/\*\*([^*]+)\*\*/g, '<strong>$1</strong>')
ReplaceBold(s) == ReplaceDelimitedFrom(s, 1, <<"*", "*">>, "*", "strong")
\* .replace(/__([^_]+)__/g, '<strong>$1</strong>')
ReplaceBoldUnderscore(s) ==
    ReplaceDelimitedFrom(s, 1, <<"_", "_">>, "_", "strong")
\* .replace(/\*([^*]+)\*/g, '<em>$1</em>')
ReplaceItalic(s) == ReplaceDelimitedFrom(s, 1, <<"*">>, "*", "em")

\* one inline substitution, by name
Substitute(step, s) ==
    CASE step = "link" -> ReplaceLinks(s)
      [] step = "bold" -> ReplaceBold(s)
      [] step = "bold_" -> ReplaceBoldUnderscore(s)
      [] step = "italic" -> ReplaceItalic(s)

\* formatInlineMarkdown, main.js lines 94-96: its replace calls, in order
InlineSteps == <<"link", "bold", "italic">>
\* timeline.js lines 35-37: the replace calls on the description, in order
LegacyInlineSteps == <<"link", "bold", "italic">>
\* the legacy loadMedia, publish-blog.sh lines 63-64: the one replace it
\* calls on an item's title and on its description
LegacyMediaSteps == <<"italic">>

\* the texts given to the inline formatters: up to MaxPieces pieces
InlinePieces ==
    {<<"a">>, <<"*">>, <<"*", "*">>, <<"[">>, <<"]">>,
     <<"[", "a", "]">>, <<"(", "u", ")">>}
RECURSIVE Concatenations(_, _)
Concatenations(pieces, n) ==
    IF n = 0 THEN {<<>>}
    ELSE LET shorter == Concatenations(pieces, n - 1)
         IN  shorter \cup {t \o q : t \in shorter, q \in pieces}
InlineTexts == Concatenations(InlinePieces, MaxPieces)

\* the text a formatter is working on
Working == IF pc = 0 THEN input ELSE output.text

\* formatInlineMarkdown runs its next replace
InlineStep ==
    /\ pc < Len(InlineSteps)
    /\ pc > 0 => output.by = "main.js"
    /\ output' = [by |-> "main.js",
                  text |-> Substitute(InlineSteps[pc + 1], Working)]
    /\ pc' = pc + 1
    /\ UNCHANGED <<input, loaderVars, dom, scrollVars>>

\* timeline.js runs its next replace on the description
LegacyInlineStep ==
    /\ pc < Len(LegacyInlineSteps)
    /\ pc > 0 => output.by = "timeline.js"
    /\ output' = [by |-> "timeline.js",
                  text |-> Substitute(LegacyInlineSteps[pc + 1], Working)]
    /\ pc' = pc + 1
    /\ UNCHANGED <<input, loaderVars, dom, scrollVars>>

\* the legacy loadMedia runs its replace on a title or a description
LegacyMediaStep ==
    /\ pc < Len(LegacyMediaSteps)
    /\ pc > 0 => output.by = "legacy loadMedia"
    /\ output' = [by |-> "legacy loadMedia",
                  text |-> Substitute(LegacyMediaSteps[pc + 1], Working)]
    /\ pc' = pc + 1
    /\ UNCHANGED <<input, loaderVars, dom, scrollVars>>

InitInline ==
    /\ NoLoaders /\ NoScroll
    /\ dom = <<>>
    /\ input \in InlineTexts
    /\ output = Null
    /\ pc = 0

NextInline ==
    \/ InlineStep
    \/ LegacyInlineStep
    \/ LegacyMediaStep

SpecInline == InitInline /\ [][NextInline]_vars

-----------------------------------------------------------------------------
(* Properties of the inline formatter *)

\* the replace calls of the formatter that wrote the output
StepsOf(by) ==
    CASE by = "main.js" -> InlineSteps
      [] by = "timeline.js" -> LegacyInlineSteps
      [] by = "legacy loadMedia" -> LegacyMediaSteps

\* C15: every formatter of a timeline or media field (formatInlineMarkdown,
\* the description in timeline.js, the title and description in the legacy
\* loadMedia) replaces links first, then bold text, then italics: what it
\* returns is the text with its links, then its bold text, then its italics
\* replaced, and before that it has replaced the links first and bold text
\* second
C15_LinksBoldItalic ==
    pc > 0 =>
      IF pc = Len(StepsOf(output.by))
      THEN output.text = ReplaceItalic(ReplaceBold(ReplaceLinks(input)))
      ELSE /\ pc = 1 => output.text = ReplaceLinks(input)
           /\ pc = 2 => output.text = ReplaceBold(ReplaceLinks(input))

\* the text holds a link: "[", some characters other than "]", "](", some
\* characters other than ")", and ")"
HoldsLink(s) ==
    \E i, j, k \in 1..Len(s) :
      /\ i + 1 < j /\ j + 2 < k
      /\ s[i] = "[" /\ s[j] = "]" /\ s[j + 1] = "(" /\ s[k] = ")"
      /\ \A m \in (i + 1)..(j - 1) : s[m] # "]"
      /\ \A m \in (j + 2)..(k - 1) : s[m] # ")"

\* C16: a text with no asterisk and no link comes out of
\* formatInlineMarkdown as it went in
C16_PlainTextUnchanged ==
    /\ pc = Len(InlineSteps)
    /\ output.by = "main.js"
    /\ \A i \in 1..Len(input) : input[i] # "*"
    /\ ~HoldsLink(input)
    => output.text = input

\* C16 witness: a text with brackets and parentheses that make no link has
\* come out unchanged
C16_Witness ==
    /\ input = <<"[", "a", "]", "a", "(", "u", ")">>
    /\ pc = Len(InlineSteps)
    /\ output = [by |-> "main.js", text |-> input]

-----------------------------------------------------------------------------
(* parseMarkdown, main.js lines 105-141: the conversion of a blog post.    *)
(* A tag written in the post (<figure>, </figure>) is one element of the   *)
(* text, like a tag written by a substitution.                             *)

\* the least element of a non-empty set of integers
Least(S) == CHOOSE i \in S : \A j \in S : i <= j

\* .replace(/^---[\s\S]*?---\n/, ''): a text that starts with "---" loses
\* everything up to the first later "---\n", and no other text changes
StripFrontmatter(s) ==
    LET closing == {j \in 4..Len(s) :
                      StartsWithAt(s, j, <<"-", "-", "-", "\n">>)}
    IN  IF StartsWithAt(s, 1, <<"-", "-", "-">>) /\ closing # {}
        THEN SubSeq(s, Least(closing) + 4, Len(s))
        ELSE s

RECURSIVE ReplaceHeadingFrom(_, _, _, _)
\* .replace(/^MARKER (.*$)/gim, '<tag>$1</tag>') on the lines from index i
\* on: a line that starts with the marker becomes a heading
ReplaceHeadingFrom(s, i, marker, tag) ==
    IF i > Len(s) THEN <<>>
    ELSE LET nl == FirstIndex(s, i, "\n")
             last == IF nl = 0 THEN Len(s) ELSE nl - 1
             line == SubSeq(s, i, last)
             out == IF StartsWithAt(line, 1, marker)
                    THEN <<"<" \o tag \o ">">>
                           \o SubSeq(line, Len(marker) + 1, Len(line))
                           \o <<"</" \o tag \o ">">>
                    ELSE line
         IN  IF nl = 0 THEN out
             ELSE out \o <<"\n">> \o ReplaceHeadingFrom(s, nl + 1, marker, tag)

\* the three heading rules, lines 112-114
ReplaceH3(s) == ReplaceHeadingFrom(s, 1, <<"#", "#", "#", " ">>, "h3")
ReplaceH2(s) == ReplaceHeadingFrom(s, 1, <<"#", "#", " ">>, "h2")
ReplaceH1(s) == ReplaceHeadingFrom(s, 1, <<"#", " ">>, "h1")

RECURSIVE SplitLines(_)
\* a split that breaks the text at every line end
SplitLines(s) ==
    LET nl == FirstIndex(s, 1, "\n")
    IN  IF nl = 0 THEN <<s>>
        ELSE <<SubSeq(s, 1, nl - 1)>> \o SplitLines(SubSeq(s, nl + 1, Len(s)))

RECURSIVE SplitBlocks(_)
\* html.split(/\n\n+/): the pieces between runs of two or more line ends
SplitBlocks(s) ==
    LET breaks == {i \in 1..(Len(s) - 1) : s[i] = "\n" /\ s[i + 1] = "\n"}
    IN  IF breaks = {} THEN <<s>>
        ELSE LET i == Least(breaks)
                 later == {j \in i..Len(s) : s[j] # "\n"}
                 next == IF later = {} THEN Len(s) + 1 ELSE Least(later)
             IN  <<SubSeq(s, 1, i - 1)>>
                   \o SplitBlocks(SubSeq(s, next, Len(s)))

\* the characters String.trim removes
WhiteSpace == {" ", "\n"}

\* block.trim()
Trim(s) ==
    LET kept == {i \in 1..Len(s) : s[i] \notin WhiteSpace}
    IN  IF kept = {} THEN <<>>
        ELSE SubSeq(s, Least(kept),
                    CHOOSE i \in kept : \A j \in kept : j <= i)

\* the elements of a text that start with the given characters
Beginning(prefix) ==
    CASE prefix = "<h" -> {"<h1>", "<h2>", "<h3>"}
      [] prefix = "<figure" -> {"<figure>"}
      [] prefix = "<ul" -> {"<ul>"}
      [] prefix = "<ol" -> {"<ol>"}
      [] prefix = "</" -> {"</h1>", "</h2>", "</h3>", "</figure>", "</ul>",
                           "</ol>", "</a>", "</strong>", "</em>"}

\* block.startsWith(prefix)
StartsWith(block, prefix) ==
    block # <<>> /\ block[1] \in Beginning(prefix)

\* a test that does not look for a closing tag
NoClosingTagTest(block) ==
    \E prefix \in {"<h", "<figure", "<ul", "<ol"} : StartsWith(block, prefix)

\* the test of lines 132-134: the block is already an HTML tag
AlreadyTag(block) ==
    \E prefix \in {"<h", "<figure", "<ul", "<ol", "</"} :
      StartsWith(block, prefix)

\* the callback of blocks.map, lines 128-138
WrapBlock(block) ==
    LET trimmed == Trim(block)
    IN  IF trimmed = <<>> THEN <<>>
        ELSE IF AlreadyTag(trimmed) THEN trimmed
        ELSE <<"<p>">> \o trimmed \o <<"</p>">>

RECURSIVE JoinLines(_)
\* .join('\n')
JoinLines(blocks) ==
    IF blocks = <<>> THEN <<>>
    ELSE IF Len(blocks) = 1 THEN blocks[1]
    ELSE blocks[1] \o <<"\n">> \o JoinLines(Tail(blocks))

\* lines 127-138: split into blocks, wrap each, join
WrapParagraphs(s) ==
    LET blocks == SplitBlocks(s)
    IN  JoinLines([i \in 1..Len(blocks) |-> WrapBlock(blocks[i])])

\* a converter that splits into paragraphs before it looks for headings
ParagraphsFirst ==
    <<"frontmatter", "paragraph", "h3", "h2", "h1", "link", "bold", "bold_",
      "italic">>

\* the statements of parseMarkdown that change the text, in order
ParseSteps ==
    <<"frontmatter", "h3", "h2", "h1", "link", "bold", "bold_", "italic",
      "paragraph">>

\* one statement of parseMarkdown, by name
Convert(step, s) ==
    CASE step = "frontmatter" -> StripFrontmatter(s)
      [] step = "h3" -> ReplaceH3(s)
      [] step = "h2" -> ReplaceH2(s)
      [] step = "h1" -> ReplaceH1(s)
      [] step = "paragraph" -> WrapParagraphs(s)
      [] OTHER -> Substitute(step, s)

\* the posts given to parseMarkdown: up to MaxPieces pieces
MarkdownPieces ==
    {<<"a">>, <<" ">>, <<"\n">>, <<"\n", "\n">>, <<"#", " ">>,
     <<"#", "#", "#", " ">>, <<"*", "*">>, <<"[", "a", "]", "(", "u", ")">>,
     <<"-", "-", "-", "\n">>, <<"<figure>">>, <<"</figure>">>}
MarkdownTexts == Concatenations(MarkdownPieces, MaxPieces)

\* the statements parseMarkdown has run
Done == IF pc = 0 THEN <<>> ELSE output.done

\* parseMarkdown runs its next statement
ParseMarkdownStep ==
    /\ pc < Len(ParseSteps)
    /\ output' = [by |-> "parseMarkdown",
                  text |-> Convert(ParseSteps[pc + 1], Working),
                  done |-> Append(Done, ParseSteps[pc + 1])]
    /\ pc' = pc + 1
    /\ UNCHANGED <<input, loaderVars, dom, scrollVars>>

InitMarkdown ==
    /\ NoLoaders /\ NoScroll
    /\ dom = <<>>
    /\ input \in MarkdownTexts
    /\ output = Null
    /\ pc = 0

NextMarkdown == ParseMarkdownStep

SpecMarkdown == InitMarkdown /\ [][NextMarkdown]_vars

-----------------------------------------------------------------------------
(* Properties of parseMarkdown *)

\* the number of paragraph elements in a text
Paragraphs(s) == Cardinality({i \in 1..Len(s) : s[i] = "<p>"})

\* the text has no empty line
NoBlankLine(s) ==
    \A i \in 1..(Len(s) - 1) : ~(s[i] = "\n" /\ s[i + 1] = "\n")

\* heading, figure and list tags, and closing tags
BlockLevelTags ==
    {"<h1>", "<h2>", "<h3>", "<figure>", "<ul>", "<ol>"}
      \cup {"</h1>", "</h2>", "</h3>", "</figure>", "</ul>", "</ol>",
            "</a>", "</strong>", "</em>"}

\* parseMarkdown runs its paragraph statement in this step
ParagraphsWrapped ==
    /\ pc' = pc + 1
    /\ output'.by = "parseMarkdown"
    /\ output'.done[pc'] = "paragraph"

Wrapped(block) ==
    LET trimmed == Trim(block)
    IN  IF trimmed = <<>> THEN <<>>
        ELSE IF trimmed[1] \in BlockLevelTags THEN trimmed
        ELSE <<"<p>">> \o trimmed \o <<"</p>">>

Phase(step) ==
    CASE step = "frontmatter" -> 1
      [] step \in {"h3", "h2", "h1"} -> 2
      [] step \in {"link", "bold", "bold_", "italic"} -> 3
      [] step = "paragraph" -> 4

\* C19: parseMarkdown strips the frontmatter first, then applies its heading
\* rules, then its inline substitutions, and wraps paragraphs last: no
\* statement runs after a statement of a later part, and the finished
\* conversion has run all four parts
C19_StepOrder ==
    /\ \A i, j \in 1..Len(Done) :
         i < j => /\ Phase(Done[i]) <= Phase(Done[j])
                  /\ Phase(Done[i]) \in {1, 4} => Phase(Done[i]) < Phase(Done[j])
    /\ pc = Len(ParseSteps) /\ pc = Len(Done) =>
         /\ {Phase(Done[i]) : i \in 1..Len(Done)} = 1..4
         /\ output.text =
              WrapParagraphs(ReplaceItalic(ReplaceBoldUnderscore(ReplaceBold(
                ReplaceLinks(ReplaceH1(ReplaceH2(ReplaceH3(
                  StripFrontmatter(input)))))))))

\* C19 witness: a post with frontmatter, a heading with bold text and a
\* paragraph has been converted, the heading found before the paragraphs
\* were wrapped
C19_Witness ==
    /\ input = <<"-", "-", "-", "\n", "-", "-", "-", "\n", "#", " ", "a">>
    /\ pc = Len(ParseSteps)
    /\ Done = <<"frontmatter", "h3", "h2", "h1", "link", "bold", "bold_",
                "italic", "paragraph">>
    /\ output.text = <<"<h1>", "a", "</h1>">>

-----------------------------------------------------------------------------
(* The publishing scripts: the Quick Blog Publisher, unnamed/part_000, and *)
(* the Blog Converter Script, publish-blog.sh lines 1-47.  pc is the line  *)
(* of the next statement; the echo statements are taken to succeed.        *)

Scripts == {"publisher", "converter"}

\* the command lines a script is started with
ArgumentLists ==
    {<<>>, <<"">>, <<"post.md">>, <<"missing.md">>, <<"drafts">>,
     <<"post.md", "extra">>, <<"missing.md", "extra">>}

\* what a path names in the working directory
FileKind(path) ==
    CASE path = "post.md" -> "file"
      [] path = "drafts" -> "directory"
      [] OTHER -> "none"

\* the exit statuses a command the scripts call can end with
Statuses == {0, 1, 2, 127}

\* the line at which a script has ended
Ended == 52

\* a test that takes every run of the converter for a success
AlwaysSucceeded(status) == TRUE

\* [ $? -eq 0 ], line 33
Succeeded(status) == status = 0

\* the script runs a command, which ends with some status
Invoke(command, status) ==
    [output EXCEPT !.invoked = Append(@, [command |-> command,
                                         status |-> status]),
                   !.status = status]

\* exit 1, or the end of the script after a command that ended with 0
Exit(code) == [output EXCEPT !.ended = TRUE, !.exit = code]

\* lines 9-20: with no argument, print the usage and exit 1
CheckArgument ==
    /\ pc = 9 /\ ~output.ended
    /\ IF Len(input.argv) = 0
       THEN output' = Exit(1) /\ pc' = Ended
       ELSE output' = output /\ pc' = 24
    /\ UNCHANGED <<input, loaderVars, dom, scrollVars>>

\* lines 22-27: MARKDOWN_FILE="$1"; if it is not a regular file, exit 1
CheckFile ==
    /\ pc = 24 /\ ~output.ended
    /\ IF FileKind(input.argv[1]) # "file"
       THEN output' = Exit(1) /\ pc' = Ended
       ELSE output' = output /\ pc' = 31
    /\ UNCHANGED <<input, loaderVars, dom, scrollVars>>

\* line 31: python3 convert-blog.py "$MARKDOWN_FILE" --update-index
RunConverter ==
    /\ pc = 31 /\ ~output.ended
    /\ \E status \in Statuses : output' = Invoke("convert-blog.py", status)
    /\ pc' = 33
    /\ UNCHANGED <<input, loaderVars, dom, scrollVars>>

\* line 33 and the else branch: if the converter failed, exit 1
CheckConverter ==
    /\ pc = 33 /\ ~output.ended
    /\ IF Succeeded(output.status)
       THEN output' = output /\ pc' = 36
       ELSE output' = Exit(1) /\ pc' = Ended
    /\ UNCHANGED <<input, loaderVars, dom, scrollVars>>

\* the publisher, line 36: git add .
GitAdd ==
    /\ pc = 36 /\ ~output.ended
    /\ input.script = "publisher"
    /\ \E status \in Statuses : output' = Invoke("git add", status)
    /\ pc' = 40
    /\ UNCHANGED <<input, loaderVars, dom, scrollVars>>

\* the publisher, lines 39-40: git commit -m "Add blog post: $BLOG_TITLE"
GitCommit ==
    /\ pc = 40 /\ ~output.ended
    /\ \E status \in Statuses : output' = Invoke("git commit", status)
    /\ pc' = 43
    /\ UNCHANGED <<input, loaderVars, dom, scrollVars>>

\* the publisher, line 43: git push
GitPush ==
    /\ pc = 43 /\ ~output.ended
    /\ \E status \in Statuses : output' = Invoke("git push", status)
    /\ pc' = 46
    /\ UNCHANGED <<input, loaderVars, dom, scrollVars>>

\* the closing echo statements of the publisher (lines 45-47) and of the
\* converter script (lines 34-43): the script prints its success message
\* and ends with the status of its last echo
ReportSuccess ==
    /\ ~output.ended
    /\ \/ pc = 46
       \/ pc = 36 /\ input.script = "converter"
    /\ output' = [Exit(0) EXCEPT !.echoed =
                    IF input.script = "publisher"
                    THEN "Blog post published successfully!"
                    ELSE "Blog post converted successfully!"]
    /\ pc' = Ended
    /\ UNCHANGED <<input, loaderVars, dom, scrollVars>>

InitPublish ==
    /\ NoLoaders /\ NoScroll
    /\ dom = <<>>
    /\ input \in [script : Scripts, argv : ArgumentLists]
    /\ output = [invoked |-> <<>>, status |-> 0, ended |-> FALSE, exit |-> 0,
                 echoed |-> ""]
    /\ pc = 9

NextPublish ==
    \/ CheckArgument
    \/ CheckFile
    \/ RunConverter
    \/ CheckConverter
    \/ GitAdd
    \/ GitCommit
    \/ GitPush
    \/ ReportSuccess

SpecPublish == InitPublish /\ [][NextPublish]_vars

-----------------------------------------------------------------------------
(* Properties of the publishing scripts *)

\* the script was called with no argument
NoArgument == input.argv = <<>>

\* the first argument names no file
NoSuchFile == ~NoArgument /\ FileKind(input.argv[1]) # "file"

\* the converter was run and failed
ConverterFailed ==
    /\ output.invoked # <<>>
    /\ output.invoked[1].command = "convert-blog.py"
    /\ output.invoked[1].status # 0

\* C20: a publishing script ends with 1 when it has no argument, when its
\* argument names no file or when the converter fails, and with 0
\* otherwise; with no argument or no such file it runs neither the
\* converter nor git
C20_ExitCodes ==
    /\ NoArgument \/ NoSuchFile => output.invoked = <<>>
    /\ output.ended =>
         output.exit = IF NoArgument \/ NoSuchFile \/ ConverterFailed
                       THEN 1 ELSE 0

\* C20 witness: the publisher, given a file, has run the converter and the
\* three git commands and ended with 0
C20_Witness ==
    /\ input = [script |-> "publisher", argv |-> <<"post.md">>]
    /\ Len(output.invoked) = 4
    /\ output.invoked[1] = [command |-> "convert-blog.py", status |-> 0]
    /\ {output.invoked[i].command : i \in 2..4} =
         {"git add", "git commit", "git push"}
    /\ output.ended /\ output.exit = 0

-----------------------------------------------------------------------------
(* Further properties of a page load *)

\* loadBlogPost has ended on a page that has a blog body
PostSettled == Finished("blogPost") /\ Found("blog-body")

\* the blog body shows the rendered post
ShowsPost ==
    /\ Len(requests["blogPost"]) = 2
    /\ dom["blog-body"] = RenderPost(requests["blogPost"][2])

\* C21 as stated: when loadBlogPost has ended the blog body shows the post
\* or one of the three messages: "No blog post specified." with no id (and
\* no fetch), "Blog post not found." only when the index has no entry with
\* the id, "Error loading blog post." after every failed fetch or parse
C21_MessageByCause ==
    PostSettled =>
      /\ ShowsPost \/ dom["blog-body"] \in FallbackMessages
      /\ blogId = "" =>
           dom["blog-body"] = NoPostSpecified /\ requests["blogPost"] = <<>>
      /\ dom["blog-body"] = PostNotFound => FindBlog(BlogIndex, blogId) = <<>>
      /\ "blogPost" \in failedFetch => dom["blog-body"] = ErrorLoadingPost

\* C21: when loadBlogPost has ended the blog body shows the post or one of
\* the three messages: "No blog post specified." with no id (and no fetch);
\* "Blog post not found." when the index could not be fetched or parsed, or
\* has no entry with the id; "Error loading blog post." when an error was
\* thrown: the content file could not be fetched or parsed, the entry names
\* no content file, or the index is no list
C21_MessageByOutcome ==
    PostSettled =>
      /\ ShowsPost \/ dom["blog-body"] \in FallbackMessages
      /\ ShowsPost <=> state["blogPost"] = "Rendered"
      /\ blogId = "" =>
           dom["blog-body"] = NoPostSpecified /\ requests["blogPost"] = <<>>
      /\ blogId # "" /\ state["blogPost"] = "Skipped" =>
           /\ dom["blog-body"] = PostNotFound
           /\ Len(requests["blogPost"]) = 1
           /\ "blogPost" \in failedFetch \/ FindBlog(BlogIndex, blogId) = <<>>
      /\ "blogPost" \in failedFetch /\ Len(requests["blogPost"]) = 1 =>
           dom["blog-body"] = PostNotFound
      /\ state["blogPost"] = "Failed" <=> dom["blog-body"] = ErrorLoadingPost
      /\ "blogPost" \in failedFetch /\ Len(requests["blogPost"]) = 2 =>
           dom["blog-body"] = ErrorLoadingPost
      /\ blogId = "post-3" => ~ShowsPost

\* C21 witness: the index could not be loaded for a post it lists, and the
\* body says the post was not found
C21_Witness ==
    /\ blogId = "post-1"
    /\ state["blogPost"] = "Skipped"
    /\ "blogPost" \in failedFetch
    /\ requests["blogPost"] = <<BlogIndexPath>>
    /\ dom["blog-body"] = PostNotFound

\* the loaders initializeMainPage calls first, lines 621-623, and the content
\* sections it calls after them, lines 626-631
ConfigurationLoaders == {"layout", "metadata", "design"}
ContentSections ==
    {"profile", "social", "publications", "blogs", "timeline", "media"}

\* loadDesignConfiguration has set the CSS variables
CssVariablesSet == dom[":root"] # InitialContent(":root")

-----------------------------------------------------------------------------
(* The theme toggle, main.js lines 147-175.  input is what the page load   *)
(* finds: the theme saved in localStorage, the system preference, the      *)
(* data-theme attribute of the markup and whether the page has the button. *)
(* output is the page: the data-theme attribute, localStorage's theme, the *)
(* button's text and the themes the page has had.                          *)

\* no value: localStorage.getItem and getAttribute return null
NoTheme == "null"

\* what localStorage holds under 'theme' when the page loads
SavedThemes == {NoTheme, "", "dark", "light", "sepia"}

Sun == "sun"
Moon == "moon"

\* localStorage.getItem('theme') || (matchMedia(...).matches ? 'dark' : 'light')
SavedTheme(stored, prefersDark) ==
    IF stored \notin {NoTheme, ""} THEN stored
    ELSE IF prefersDark THEN "dark" ELSE "light"

\* the text the button is given for a theme, lines 160, 163 and 173
ThemeIcon(theme) == IF theme = "dark" THEN Sun ELSE Moon

\* a click handler that sets the theme it found
KeepTheme(currentTheme) == currentTheme

\* currentTheme === 'dark' ? 'light' : 'dark', line 169
NewTheme(currentTheme) == IF currentTheme = "dark" THEN "light" ELSE "dark"

\* initializeThemeToggle: without the button it returns at line 151;
\* otherwise it applies the saved theme and registers the click listener
InitializeThemeToggle ==
    /\ pc = 0
    /\ pc' = 1
    /\ IF ~input.hasButton
       THEN UNCHANGED <<output, listeners>>
       ELSE LET theme == IF SavedTheme(input.stored, input.prefersDark) = "dark"
                         THEN "dark" ELSE "light"
            IN  /\ output' = [output EXCEPT !.dataTheme = theme,
                                            !.icon = ThemeIcon(theme),
                                            !.themes = <<theme>>]
                /\ listeners' = Append(listeners, [event |-> "click",
                                                   target |-> "theme-toggle"])
    /\ UNCHANGED <<input, headingTops, loaderVars, dom>>

\* the click listener runs, lines 167-174
ClickThemeToggle ==
    /\ listeners # <<>>
    /\ output.clicks < MaxClicks
    /\ LET newTheme == NewTheme(output.dataTheme)
       IN  output' = [dataTheme |-> newTheme,
                      stored |-> newTheme,
                      icon |-> ThemeIcon(newTheme),
                      themes |-> Append(output.themes, newTheme),
                      clicks |-> output.clicks + 1]
    /\ UNCHANGED <<input, pc, listeners, headingTops, loaderVars, dom>>

InitTheme ==
    /\ NoLoaders /\ NoScroll
    /\ dom = <<>>
    /\ input \in [stored : SavedThemes, prefersDark : BOOLEAN,
                  markup : {NoTheme, "dark", "light"}, hasButton : BOOLEAN]
    /\ output = [dataTheme |-> input.markup, stored |-> input.stored,
                 icon |-> "", themes |-> <<>>, clicks |-> 0]
    /\ pc = 0

NextTheme ==
    \/ InitializeThemeToggle
    \/ ClickThemeToggle

SpecTheme == InitTheme /\ [][NextTheme]_vars

\* C23: once the theme toggle has been clicked, data-theme is 'dark' or
\* 'light', localStorage holds the same theme, the button shows the sun
\* exactly when the theme is dark, every click has changed the theme and
\* every second click has brought it back
C23_ToggleConsistent ==
    output.clicks >= 1 =>
      /\ output.dataTheme \in {"dark", "light"}
      /\ output.stored = output.dataTheme
      /\ output.icon \in {Sun, Moon}
      /\ output.icon = Sun <=> output.dataTheme = "dark"
      /\ Len(output.themes) = output.clicks + 1
      /\ output.themes[Len(output.themes)] = output.dataTheme
      /\ \A i \in 1..(Len(output.themes) - 1) :
           output.themes[i + 1] # output.themes[i]
      /\ \A i \in 1..(Len(output.themes) - 2) :
           output.themes[i + 2] = output.themes[i]

\* C23 witness: a page with no saved theme, on a system that prefers dark,
\* has been clicked twice and is dark again
C23_Witness ==
    /\ input.stored = NoTheme /\ input.prefersDark
    /\ output.clicks = 2
    /\ output.themes = <<"dark", "light", "dark">>
    /\ output.stored = "dark" /\ output.icon = Sun

-----------------------------------------------------------------------------
(* Page detection and initialization, main.js lines 864-885.  input is     *)
(* document.readyState when the script runs; output holds the functions    *)
(* called so far; pc is 0 before the script runs, 1 while it waits for     *)
(* DOMContentLoaded, 2 before initializeThemeToggle, 3 before the page is  *)
(* detected, 4 while the page's initializer calls its loaders and 5 after. *)

ReadyStates == {"loading", "interactive", "complete"}

\* the documents the script is run on: those of a page load, a page that
\* has the blog body and the profile, and a page with the profile alone
StartupDocuments ==
    Documents \cup {IndexPage \cup {"blog-body"}, {":root", "profile-content"}}

\* the variables of a page load that the start of the script leaves alone
idleVars ==
    <<configFile, state, requests, failedFetch, ret, siteConfig, cfgWrites,
      uncaught, blogId, timelineData, runs>>

Call(name) == [output EXCEPT !.calls = Append(@, name)]

\* lines 865-886: while the document is loading the script registers a
\* DOMContentLoaded listener, otherwise it initializes at once
RunScript ==
    /\ pc = 0
    /\ IF input = "loading"
       THEN /\ listeners' = <<[event |-> "DOMContentLoaded"]>>
            /\ pc' = 1
       ELSE /\ listeners' = listeners
            /\ pc' = 2
    /\ UNCHANGED <<input, output, headingTops, initPc, idleVars, dom>>

\* the document has been parsed: the listener of line 866 runs
DomContentLoaded ==
    /\ pc = 1
    /\ listeners # <<>>
    /\ ~output.loaded
    /\ output' = [output EXCEPT !.loaded = TRUE]
    /\ pc' = 2
    /\ UNCHANGED <<input, listeners, headingTops, initPc, idleVars, dom>>

\* lines 867 and 878: initializeThemeToggle()
CallInitializeThemeToggle ==
    /\ pc = 2
    /\ output' = Call("initializeThemeToggle")
    /\ pc' = 3
    /\ UNCHANGED <<input, listeners, headingTops, initPc, idleVars, dom>>

\* lines 870-876 and 881-885: the page's initializer is called, if any
DetectPage ==
    /\ pc = 3
    /\ IF Page = "blog" THEN output' = Call("initializeBlogPage") /\ pc' = 4
       ELSE IF Page = "main"
       THEN output' = Call("initializeMainPage") /\ pc' = 4
       ELSE output' = output /\ pc' = 5
    /\ UNCHANGED <<input, listeners, headingTops, initPc, idleVars, dom>>

\* the initializer calls its next loader, lines 621-631 and 852-854
StartLoader ==
    /\ pc = 4
    /\ initPc < Len(InitOrder)
    /\ initPc' = initPc + 1
    /\ output' = Call(InitOrder[initPc + 1])
    /\ pc' = pc
    /\ UNCHANGED <<input, listeners, headingTops, idleVars, dom>>

\* the initializer returns
InitializerReturns ==
    /\ pc = 4
    /\ initPc = Len(InitOrder)
    /\ pc' = 5
    /\ UNCHANGED <<input, output, listeners, headingTops, initPc, idleVars, dom>>

InitStartup ==
    /\ NoLoaders /\ NoScroll
    /\ \E doc \in StartupDocuments : dom = [id \in doc |-> InitialContent(id)]
    /\ input \in ReadyStates
    /\ output = [calls |-> <<>>, loaded |-> input # "loading"]
    /\ pc = 0

NextStartup ==
    \/ RunScript
    \/ DomContentLoaded
    \/ CallInitializeThemeToggle
    \/ DetectPage
    \/ StartLoader
    \/ InitializerReturns

SpecStartup == InitStartup /\ [][NextStartup]_vars

\* how many times a function has been called
Calls(name) ==
    Cardinality({i \in 1..Len(output.calls) : output.calls[i] = name})

\* C24: initializeThemeToggle and a page initializer are each called at
\* most once, and once the script has finished initializeThemeToggle has
\* been called exactly once; nothing is called before
\* initializeThemeToggle; initializeBlogPage is called when the page has a
\* blog-body element, otherwise initializeMainPage when it has a
\* profile-content element, otherwise neither, and the loaders called are
\* those of that initializer
C24_InitializedOnce ==
    /\ Calls("initializeThemeToggle") <= 1
    /\ Calls("initializeBlogPage") + Calls("initializeMainPage") <= 1
    /\ output.calls # <<>> => output.calls[1] = "initializeThemeToggle"
    /\ \A l \in Loaders : Calls(l) <= 1
    /\ pc = 5 =>
         /\ Calls("initializeThemeToggle") = 1
         /\ Calls("initializeBlogPage") =
              IF "blog-body" \in DOMAIN dom THEN 1 ELSE 0
         /\ Calls("initializeMainPage") =
              IF "blog-body" \notin DOMAIN dom /\ "profile-content" \in DOMAIN dom
              THEN 1 ELSE 0
         /\ \A l \in BlogLoaders : Calls(l) = Calls("initializeBlogPage")
         /\ \A l \in MainLoaders : Calls(l) = Calls("initializeMainPage")

\* C24 witness: on a page that has both a blog body and the profile, loaded
\* while the document was still being parsed, the blog page alone has been
\* initialized
C24_Witness ==
    /\ input = "loading"
    /\ {"blog-body", "profile-content"} \subseteq DOMAIN dom
    /\ pc = 5
    /\ output.calls = <<"initializeThemeToggle", "initializeBlogPage",
                        "blogLayout", "blogMetadata", "blogPost">>

-----------------------------------------------------------------------------
(* Further properties of loadConfig on its own *)

\* caller c's loadConfig call has failed and returned
FailedCall(c) ==
    /\ c \in failedFetch
    /\ state[c] = "Returned"

\* C25: a loadConfig call that fails returns null and does not write the
\* cache, which never holds anything but the parsed configuration; while no
\* call has succeeded, a call made after a failed one issues a fetch of its
\* own, and when that fetch brings a configuration the call returns it and
\* fills the cache with it
C25_FailureNotCached ==
    [][/\ siteConfig' = Null \/ siteConfig' = JsYamlLoad(configFile).value
       /\ \A c \in Callers :
            /\ ~FailedCall(c) /\ FailedCall(c)' =>
                 /\ ret'[c] = Null
                 /\ siteConfig' = siteConfig /\ cfgWrites' = cfgWrites
            /\ /\ state[c] = "Unloaded" /\ state'[c] # "Unloaded"
               /\ \E d \in Callers : FailedCall(d)
               /\ siteConfig = Null
               => state'[c] = "Fetching" /\ requests'[c] = <<ConfigPath>>
            /\ /\ state[c] = "Fetching" /\ state'[c] = "Returned"
               /\ c \notin failedFetch'
               => ret'[c].type = "map" /\ siteConfig' = ret'[c]]_vars

\* C25 witness: one call has failed and returned null, another has fetched
\* the configuration, returned it and filled the cache, written once
C25_Witness ==
    \E c, d \in Callers :
      /\ FailedCall(d) /\ ret[d] = Null
      /\ state[c] = "Returned" /\ c \notin failedFetch
      /\ requests[c] = <<ConfigPath>>
      /\ ret[c].type = "map" /\ siteConfig = ret[c]
      /\ cfgWrites = 1

-----------------------------------------------------------------------------
(* Further properties of the publishing scripts *)

\* the commands the publisher has run, in order
Commands == [i \in 1..Len(output.invoked) |-> output.invoked[i].command]

\* the status of a command the script has run
StatusOf(command) ==
    LET i == CHOOSE i \in 1..Len(output.invoked) :
               output.invoked[i].command = command
    IN  output.invoked[i].status

\* C26: the publisher runs the converter, git add, git commit and git push
\* in that order, runs git only when the converter succeeded, and prints
\* "Blog post published successfully!" only when the commit and the push
\* succeeded
C26_PublishedOnlyWhenPushed ==
    input.script = "publisher" =>
      /\ Commands = SubSeq(<<"convert-blog.py", "git add", "git commit",
                             "git push">>, 1, Len(Commands))
      /\ Len(Commands) >= 2 => StatusOf("convert-blog.py") = 0
      /\ output.echoed = "Blog post published successfully!" =>
           /\ Len(Commands) = 4
           /\ StatusOf("git commit") = 0
           /\ StatusOf("git push") = 0

-----------------------------------------------------------------------------
(* The image path fix of loadBlogPost, main.js lines 753-763.

   The src attribute of an image is a sequence of pieces.  The pieces
   "http", "/" and "content/blogs/" stand for those very characters and the
   other pieces for characters in which none of the three tested strings
   begins or ends, so that no occurrence of a tested string straddles two
   pieces.  An image without a src attribute has has = FALSE
   (getAttribute returns null). *)

MaxImages == 2
MaxSrc == 3

BlogsDirectory == "content/blogs/"

SrcPieces == {"http", "/", BlogsDirectory, "a"}

Images ==
    {[has |-> FALSE, src |-> <<>>]}
        \cup {[has |-> TRUE, src |-> t] : t \in Concatenations(SrcPieces, MaxSrc)}

\* src.startsWith(piece)
SrcStartsWith(src, piece) == src # <<>> /\ src[1] = piece

\* src.includes(piece)
SrcIncludes(src, piece) == \E i \in 1..Len(src) : src[i] = piece

\* a fix that does not look for the directory in the path
FixImagePathAgain(img) ==
    IF /\ img.has /\ img.src # <<>>
       /\ ~SrcStartsWith(img.src, "http")
       /\ ~SrcStartsWith(img.src, "/")
    THEN [img EXCEPT !.src = <<BlogsDirectory>> \o img.src]
    ELSE img

\* the body of the forEach, lines 757-761: null and the empty string are
\* falsy and fail the `src &&` test
FixImagePath(img) ==
    IF /\ img.has /\ img.src # <<>>
       /\ ~SrcStartsWith(img.src, "http")
       /\ ~SrcStartsWith(img.src, "/")
       /\ ~SrcIncludes(img.src, BlogsDirectory)
    THEN [img EXCEPT !.src = <<BlogsDirectory>> \o img.src]
    ELSE img

\* lines 755-762: every img of the blog body is visited once.  A second
\* application is taken to observe that it changes nothing; loadBlogPost
\* itself applies the fix once to the HTML it has just assigned.
FixImagePaths ==
    /\ pc = 0
    /\ output.applied < MaxRuns
    /\ output' = [images |-> [i \in 1..Len(output.images) |->
                                 FixImagePath(output.images[i])],
                  once |-> IF output.applied = 0
                           THEN [i \in 1..Len(output.images) |->
                                    FixImagePath(output.images[i])]
                           ELSE output.once,
                  applied |-> output.applied + 1]
    /\ UNCHANGED <<input, pc, loaderVars, dom, scrollVars>>

InitImages ==
    /\ NoLoaders /\ NoScroll
    /\ dom = <<>>
    /\ input \in UNION {[1..n -> Images] : n \in 1..MaxImages}
    /\ output = [images |-> input, once |-> input, applied |-> 0]
    /\ pc = 0

NextImages == FixImagePaths

SpecImages == InitImages /\ [][NextImages]_vars

\* a source that is relative: it starts neither with http nor with /
Relative(img) ==
    img.has /\ ~SrcStartsWith(img.src, "http") /\ ~SrcStartsWith(img.src, "/")

\* the image has its source with the directory put in front
Prefixed(before, after) ==
    after.has /\ after.src = <<BlogsDirectory>> \o before.src

\* C27 as stated: the fix prefixes content/blogs/ to exactly the sources
\* that are relative and do not contain content/blogs/, leaves the others
\* unchanged, and a second application changes nothing
C27_RelativeSourcesPrefixed ==
    output.applied >= 1 =>
      /\ \A i \in 1..Len(input) :
           IF Relative(input[i]) /\ ~SrcIncludes(input[i].src, BlogsDirectory)
           THEN Prefixed(input[i], output.once[i])
           ELSE output.once[i] = input[i]
      /\ output.images = output.once

\* C27: the fix prefixes content/blogs/ to exactly the sources that are not
\* empty, are relative and do not contain content/blogs/, leaves the
\* others, the empty source among them, unchanged, and a second application
\* changes nothing
C27_NonEmptyRelativeSourcesPrefixed ==
    output.applied >= 1 =>
      /\ Len(output.once) = Len(input)
      /\ \A i \in 1..Len(input) :
           IF /\ Relative(input[i]) /\ input[i].src # <<>>
              /\ ~SrcIncludes(input[i].src, BlogsDirectory)
           THEN Prefixed(input[i], output.once[i])
           ELSE output.once[i] = input[i]
      /\ output.images = output.once

\* the fix applied twice to a page with an image that was prefixed and an
\* image with an empty source that was left alone
C27_Witness ==
    /\ output.applied = 2
    /\ Len(input) = 2
    /\ input[1] = [has |-> TRUE, src |-> <<"a", "/", "a">>]
    /\ output.images[1].src = <<BlogsDirectory, "a", "/", "a">>
    /\ input[2] = [has |-> TRUE, src |-> <<>>]
    /\ output.images[2] = input[2]

====
